---- MODULE Spec2Model ----
(***************************************************************************)
(* A model of http_unix_client: the UnixUrl address codec, the fallible    *)
(* fluent RequestBuilder and the Request it accumulates, Client::execute   *)
(* over the shared transport, and the Response it returns.                 *)
(*                                                                         *)
(* Text is modelled as what it is in the program: a sequence of bytes      *)
(* (0..255).  B(<<"a", "b">>) writes a byte string from its characters.    *)
(* Option<T> is a sequence of length 0 (None) or 1 (Some).                 *)
(* Result<T, E> is a record [tag |-> "Ok" | "Err", val |-> ...].           *)
(***************************************************************************)
EXTENDS Integers, Sequences, FiniteSets, TLC

VARIABLES
    pc,        \* position of the caller: "idle", "made" (a UnixUrl exists), "building", "built"
    socket,    \* the socket path handed to UnixUrl::new / Client::request (bytes)
    rel,       \* the relative path handed to UnixUrl::new / Client::request (bytes)
    url,       \* the Result<UnixUrl, ParseError> of UnixUrl::new
    edited,    \* whether set_path / set_query has been applied to url
    builder,   \* the RequestBuilder: [client, request]
    calls,     \* number of calls made on the builder so far
    last,      \* the last builder call: its name, its arguments and the builder before it
    cloned,    \* the Option<RequestBuilder> of the last try_clone()
    built,     \* the Option<Result<Request>> returned by build()
    first_error, \* history: the Option<Error> the builder's state first held
    snapshot,  \* history: the builder try_clone() was called on, as it was then
    touched,   \* history: which of "original", "clone" was called since the cloning
    tasks,     \* the running send()/execute() calls: one record per task
    wire_log,  \* history: the wire requests handed to the transport, in order
    response,  \* the Option<Response> a caller holds
    reading,   \* the last call on the response: its name, the response before it, its result
    chunks,    \* history: what the chunk() calls returned up to their first none or error
    twin       \* the Response to the same request sent again, and what bytes() made of it

vars ==
    <<pc, socket, rel, url, edited, builder, calls, last, cloned, built, first_error,
      snapshot, touched, tasks, wire_log, response, reading, chunks, twin>>

----------------------------------------------------------------------------
(* Bounds of the model *)

MaxSocketLen == 2
MaxRelLen == 3
MaxCalls == 3
MaxSendCalls == 1
MaxTasks == 2
MaxFrames == 2

----------------------------------------------------------------------------
(* Option, Result *)

None == <<>>
Some(x) == <<x>>
IsSome(o) == Len(o) = 1
Unwrap(o) == o[1]

Ok(v) == [tag |-> "Ok", val |-> v]
Err(e) == [tag |-> "Err", val |-> e]
IsOk(r) == r.tag = "Ok"
IsErr(r) == r.tag = "Err"

----------------------------------------------------------------------------
(* Bytes and characters *)

\* The printable ASCII characters, 0x20 .. 0x7E, in code order (0x60 by name).
AsciiChars ==
    << " ", "!", "\"", "#", "$", "%", "&", "'", "(", ")", "*", "+", ",", "-", ".", "/",
       "0", "1", "2", "3", "4", "5", "6", "7", "8", "9", ":", ";", "<", "=", ">", "?",
       "@", "A", "B", "C", "D", "E", "F", "G", "H", "I", "J", "K", "L", "M", "N", "O",
       "P", "Q", "R", "S", "T", "U", "V", "W", "X", "Y", "Z", "[", "\\", "]", "^", "_",
       "grave", "a", "b", "c", "d", "e", "f", "g", "h", "i", "j", "k", "l", "m", "n", "o",
       "p", "q", "r", "s", "t", "u", "v", "w", "x", "y", "z", "{", "|", "}", "~" >>

Code(c) == 31 + (CHOOSE i \in 1..Len(AsciiChars) : AsciiChars[i] = c)

\* The bytes of a string given by its characters.
B(cs) == [i \in 1..Len(cs) |-> Code(cs[i])]

RECURSIVE SeqsUpTo(_, _)
\* All sequences over S of length 0..n.
SeqsUpTo(S, n) ==
    IF n = 0 THEN {<<>>}
    ELSE LET shorter == SeqsUpTo(S, n - 1)
         IN  shorter \cup {Append(s, x) : s \in shorter, x \in S}

Drop(s, n) == SubSeq(s, n + 1, Len(s))

RECURSIVE Concat(_)
\* The concatenation of a sequence of byte strings.
Concat(ss) == IF ss = <<>> THEN <<>> ELSE Head(ss) \o Concat(Tail(ss))

RECURSIVE Join(_, _)
\* The byte strings of ss joined by sep.
Join(ss, sep) ==
    IF ss = <<>> THEN <<>>
    ELSE IF Len(ss) = 1 THEN ss[1]
    ELSE ss[1] \o sep \o Join(Tail(ss), sep)

\* Index of the first byte of s that is in S, or Len(s) + 1.
FirstIn(s, S) ==
    IF \E i \in 1..Len(s) : s[i] \in S
    THEN CHOOSE i \in 1..Len(s) : s[i] \in S /\ \A j \in 1..(i - 1) : s[j] \notin S
    ELSE Len(s) + 1

----------------------------------------------------------------------------
(* hex::encode, and its inverse *)

HEX_CHARS_LOWER == B(<<"0","1","2","3","4","5","6","7","8","9","a","b","c","d","e","f">>)
HEX_CHARS_UPPER == B(<<"0","1","2","3","4","5","6","7","8","9","A","B","C","D","E","F">>)

\* hex::encode(bytes): two lowercase digits per byte, high nibble first.
hex_encode(bs) ==
    [i \in 1..(2 * Len(bs)) |->
        IF i % 2 = 1 THEN HEX_CHARS_LOWER[(bs[(i + 1) \div 2] \div 16) + 1]
                     ELSE HEX_CHARS_LOWER[(bs[i \div 2] % 16) + 1]]

IsLowerHex(s) == \A i \in 1..Len(s) : \E d \in 1..16 : HEX_CHARS_LOWER[d] = s[i]

HexVal(c) == (CHOOSE d \in 1..16 : HEX_CHARS_LOWER[d] = c) - 1

\* The bytes a string of an even number of lowercase hex digits stands for.
hex_decode(s) ==
    [i \in 1..(Len(s) \div 2) |-> 16 * HexVal(s[2 * i - 1]) + HexVal(s[2 * i])]

----------------------------------------------------------------------------
(* Path::to_string_lossy: UTF-8 validation with U+FFFD replacement *)

REPLACEMENT == <<239, 191, 189>>     \* U+FFFD as UTF-8: EF BF BD

utf8_char_width(b) ==
    IF b < 128 THEN 1
    ELSE IF b >= 194 /\ b <= 223 THEN 2
    ELSE IF b >= 224 /\ b <= 239 THEN 3
    ELSE IF b >= 240 /\ b <= 244 THEN 4
    ELSE 0

IsCont(b) == b \div 64 = 2           \* b & 0xC0 == 0x80

\* The first chunk of a non-empty byte string: whether it is a valid scalar
\* and how many bytes were inspected for it.
Utf8Step(bs) ==
    LET get(i) == IF i <= Len(bs) THEN bs[i] ELSE 0
        b == bs[1]
        w == utf8_char_width(b)
        second3 == \/ b = 224 /\ get(2) >= 160 /\ get(2) <= 191
                   \/ b >= 225 /\ b <= 236 /\ get(2) >= 128 /\ get(2) <= 191
                   \/ b = 237 /\ get(2) >= 128 /\ get(2) <= 159
                   \/ b >= 238 /\ b <= 239 /\ get(2) >= 128 /\ get(2) <= 191
        second4 == \/ b = 240 /\ get(2) >= 144 /\ get(2) <= 191
                   \/ b >= 241 /\ b <= 243 /\ get(2) >= 128 /\ get(2) <= 191
                   \/ b = 244 /\ get(2) >= 128 /\ get(2) <= 143
    IN  IF w = 1 THEN [valid |-> TRUE, len |-> 1]
        ELSE IF w = 2 THEN
            IF IsCont(get(2)) THEN [valid |-> TRUE, len |-> 2]
            ELSE [valid |-> FALSE, len |-> 1]
        ELSE IF w = 3 THEN
            IF ~second3 THEN [valid |-> FALSE, len |-> 1]
            ELSE IF ~IsCont(get(3)) THEN [valid |-> FALSE, len |-> 2]
            ELSE [valid |-> TRUE, len |-> 3]
        ELSE IF w = 4 THEN
            IF ~second4 THEN [valid |-> FALSE, len |-> 1]
            ELSE IF ~IsCont(get(3)) THEN [valid |-> FALSE, len |-> 2]
            ELSE IF ~IsCont(get(4)) THEN [valid |-> FALSE, len |-> 3]
            ELSE [valid |-> TRUE, len |-> 4]
        ELSE [valid |-> FALSE, len |-> 1]

RECURSIVE to_string_lossy(_)
\* The String of a path: valid UTF-8 is kept, every invalid sequence becomes U+FFFD.
to_string_lossy(bs) ==
    IF bs = <<>> THEN <<>>
    ELSE LET s == Utf8Step(bs)
         IN  (IF s.valid THEN SubSeq(bs, 1, s.len) ELSE REPLACEMENT)
                \o to_string_lossy(Drop(bs, s.len))

IsUtf8(bs) == to_string_lossy(bs) = bs

----------------------------------------------------------------------------
(* url::Url: parsing "unix://<host><path>[?query][#fragment]" *)

\* Percent-encode sets of the url crate (bytes that are escaped).
CONTROLS == (0..31) \cup (127..255)
FRAGMENT_SET == CONTROLS \cup {32, 34, 60, 62, 96}
PATH_SET == FRAGMENT_SET \cup {35, 63, 123, 125}
QUERY_SET == CONTROLS \cup {32, 34, 35, 60, 62}

\* '%' and two uppercase hex digits.
percent_byte(b) ==
    <<37, HEX_CHARS_UPPER[(b \div 16) + 1], HEX_CHARS_UPPER[(b % 16) + 1]>>

percent_encode(bs, set) ==
    Concat([i \in 1..Len(bs) |-> IF bs[i] \in set THEN percent_byte(bs[i]) ELSE <<bs[i]>>])

\* Leading and trailing C0 controls and spaces are removed from the input.
trim_c0_control_and_space(s) ==
    LET keep == {i \in 1..Len(s) : s[i] > 32}
    IN  IF keep = {} THEN <<>>
        ELSE LET lo == CHOOSE i \in keep : \A j \in keep : i <= j
                 hi == CHOOSE i \in keep : \A j \in keep : j <= i
             IN  SubSeq(s, lo, hi)

\* ASCII tab and newlines are removed from the input.
remove_tab_and_newlines(s) == SelectSeq(s, LAMBDA b : b \notin {9, 10, 13})

\* Forbidden host code points of an opaque host.
FORBIDDEN_HOST ==
    (0..32) \cup {35, 47, 58, 60, 62, 63, 64, 91, 92, 93, 94, 124, 127}

UNIX_SCHEME == B(<<"u","n","i","x",":","/","/">>)

\* Url::parse of a string that starts with "unix://".  The relative paths of
\* this model hold no '.', so dot-segment removal never applies.
Url_parse(input) ==
    LET s == remove_tab_and_newlines(trim_c0_control_and_space(input))
        rest == Drop(s, Len(UNIX_SCHEME))
        hostEnd == FirstIn(rest, {47, 63, 35})
        host == SubSeq(rest, 1, hostEnd - 1)
        afterHost == Drop(rest, hostEnd - 1)
        pathEnd == FirstIn(afterHost, {63, 35})
        rawPath == SubSeq(afterHost, 1, pathEnd - 1)
        afterPath == Drop(afterHost, pathEnd - 1)
        hasQuery == afterPath # <<>> /\ afterPath[1] = 63
        afterMark == IF hasQuery THEN Tail(afterPath) ELSE afterPath
        queryEnd == FirstIn(afterMark, {35})
        rawQuery == SubSeq(afterMark, 1, queryEnd - 1)
        afterQuery == IF hasQuery THEN Drop(afterMark, queryEnd - 1) ELSE afterPath
        hasFragment == afterQuery # <<>> /\ afterQuery[1] = 35
    IN  IF \E i \in 1..Len(host) : host[i] \in FORBIDDEN_HOST
        THEN Err([kind |-> "UrlParseError", detail |-> "InvalidDomainCharacter"])
        ELSE Ok([host |-> host,
                 path |-> percent_encode(rawPath, PATH_SET),
                 query |-> IF hasQuery THEN Some(percent_encode(rawQuery, QUERY_SET))
                           ELSE None,
                 fragment |-> IF hasFragment
                              THEN Some(percent_encode(Tail(afterQuery), FRAGMENT_SET))
                              ELSE None])

\* Url::as_str
Url_as_str(u) ==
    UNIX_SCHEME \o u.host \o u.path
        \o (IF IsSome(u.query) THEN <<63>> \o Unwrap(u.query) ELSE <<>>)
        \o (IF IsSome(u.fragment) THEN <<35>> \o Unwrap(u.fragment) ELSE <<>>)

\* Url::set_path: the new path is parsed as a path only ('?' and '#' are escaped)
\* and starts with '/'.
Url_set_path(u, p) ==
    LET q == remove_tab_and_newlines(p)
        enc == percent_encode(q, PATH_SET)
    IN  [u EXCEPT !.path = IF enc # <<>> /\ enc[1] = 47 THEN enc ELSE <<47>> \o enc]

\* Url::set_query: None removes the query, Some(q) replaces it; the fragment stays.
Url_set_query(u, q) ==
    IF IsSome(q)
    THEN [u EXCEPT !.query =
            Some(percent_encode(remove_tab_and_newlines(Unwrap(q)), QUERY_SET))]
    ELSE [u EXCEPT !.query = None]

----------------------------------------------------------------------------
(* UnixUrl *)

\* if path.starts_with('/') { path } else { "/" + path }
normalized_path(path) ==
    IF path # <<>> /\ path[1] = 47 THEN path ELSE <<47>> \o path

\* hex::encode(socket.as_ref().to_string_lossy().as_bytes())
encoded_socket(sock) == hex_encode(to_string_lossy(sock))

\* UnixUrl::new(socket, path)
UnixUrl_new(sock, path) ==
    LET url_string == UNIX_SCHEME \o encoded_socket(sock) \o normalized_path(path)
        parsed == Url_parse(url_string)
    IN  IF IsOk(parsed) THEN Ok([inner |-> parsed.val]) ELSE parsed

UnixUrl_as_str(u) == Url_as_str(u.inner)
UnixUrl_path(u) == u.inner.path
UnixUrl_query(u) == u.inner.query
UnixUrl_fragment(u) == u.inner.fragment
UnixUrl_set_path(u, p) == [inner |-> Url_set_path(u.inner, p)]
UnixUrl_set_query(u, q) == [inner |-> Url_set_query(u.inner, q)]

\* The authority of the URL: what lies between "unix://" and the path.
Authority(u) == u.inner.host

----------------------------------------------------------------------------
(* http::HeaderMap: an ordered multimap; an entry is a name with its values *)

\* What a caller can pass as a header key: text to be validated, or a HeaderName.
KeyStr(s) == [kind |-> "str", s |-> s]
KeyName(s) == [kind |-> "name", s |-> s]
\* What a caller can pass as a header value: text to be validated, or a HeaderValue.
ValStr(s) == [kind |-> "str", s |-> s, sensitive |-> FALSE]
ValValue(s, sens) == [kind |-> "value", s |-> s, sensitive |-> sens]

HeaderValue(s, sens) == [bytes |-> s, sensitive |-> sens]

\* The bytes of a header name: digits, letters and ! # $ % & ' * + - . ^ _ ` | ~
IsTokenByte(b) ==
    \/ b >= 48 /\ b <= 57
    \/ b >= 65 /\ b <= 90
    \/ b >= 97 /\ b <= 122
    \/ b \in {33, 35, 36, 37, 38, 39, 42, 43, 45, 46, 94, 95, 96, 124, 126}

to_ascii_lowercase(s) ==
    [i \in 1..Len(s) |-> IF s[i] >= 65 /\ s[i] <= 90 THEN s[i] + 32 ELSE s[i]]

HttpError(detail) == [kind |-> "HttpError", detail |-> detail]

\* <HeaderName as TryFrom<K>>::try_from: names are validated and lower-cased.
HeaderName_try_from(k) ==
    IF k.kind = "name" THEN Ok(k.s)
    ELSE IF k.s = <<>> \/ \E i \in 1..Len(k.s) : ~IsTokenByte(k.s[i])
    THEN Err(HttpError("InvalidHeaderName"))
    ELSE Ok(to_ascii_lowercase(k.s))

\* A byte a header value may hold: visible ASCII, space, tab, or obs-text.
IsValueByte(b) == (b >= 32 /\ b # 127) \/ b = 9

\* <HeaderValue as TryFrom<V>>::try_from
HeaderValue_try_from(v) ==
    IF v.kind = "value" THEN Ok(HeaderValue(v.s, v.sensitive))
    ELSE IF \E i \in 1..Len(v.s) : ~IsValueByte(v.s[i])
    THEN Err(HttpError("InvalidHeaderValue"))
    ELSE Ok(HeaderValue(v.s, FALSE))

HeaderMap_new == <<>>

\* Index of the entry of a name, 0 when the map has none.
HeaderMap_find(map, name) ==
    IF \E i \in 1..Len(map) : map[i].name = name
    THEN CHOOSE i \in 1..Len(map) : map[i].name = name
    ELSE 0

HeaderMap_contains_key(map, name) == HeaderMap_find(map, name) # 0

\* HeaderMap::get_all: the values of a name, in insertion order.
HeaderMap_get_all(map, name) ==
    LET i == HeaderMap_find(map, name)
    IN  IF i = 0 THEN <<>> ELSE map[i].values

\* HeaderMap::get: the first value of a name.
HeaderMap_get(map, name) ==
    LET vs == HeaderMap_get_all(map, name)
    IN  IF vs = <<>> THEN None ELSE Some(vs[1])

\* HeaderMap::append: the value is added after the values the name already has.
HeaderMap_append(map, name, value) ==
    LET i == HeaderMap_find(map, name)
    IN  IF i = 0 THEN Append(map, [name |-> name, values |-> <<value>>])
        ELSE [map EXCEPT ![i].values = Append(@, value)]

\* HeaderMap::insert: the value replaces every value the name already has.
HeaderMap_insert(map, name, value) ==
    LET i == HeaderMap_find(map, name)
    IN  IF i = 0 THEN Append(map, [name |-> name, values |-> <<value>>])
        ELSE [map EXCEPT ![i].values = <<value>>]

HeaderMap_keys(map) == {map[i].name : i \in 1..Len(map)}

\* IntoIterator for HeaderMap: (Some(name), first value), then (None, value) for
\* each further value of the same name.
HeaderMap_into_iter(map) ==
    Concat([i \in 1..Len(map) |->
        [j \in 1..Len(map[i].values) |->
            [key |-> IF j = 1 THEN Some(map[i].name) ELSE None,
             value |-> map[i].values[j]]]])

\* What a caller can pass to headers(): a HeaderMap, or a collection whose
\* conversion into a HeaderMap fails.
BulkMap(map) == [kind |-> "map", map |-> map]
BulkInvalid(detail) == [kind |-> "invalid", map |-> <<>>, detail |-> detail]

\* <HeaderMap as TryFrom<M>>::try_from
HeaderMap_try_from(m) ==
    IF m.kind = "map" THEN Ok(m.map) ELSE Err(HttpError(m.detail))

AUTHORIZATION == B(<<"a","u","t","h","o","r","i","z","a","t","i","o","n">>)
CONTENT_TYPE == B(<<"c","o","n","t","e","n","t","-","t","y","p","e">>)

----------------------------------------------------------------------------
(* base64::prelude::BASE64_STANDARD *)

BASE64_ALPHABET ==
    B(<< "A", "B", "C", "D", "E", "F", "G", "H", "I", "J", "K", "L", "M", "N", "O", "P",
         "Q", "R", "S", "T", "U", "V", "W", "X", "Y", "Z", "a", "b", "c", "d", "e", "f",
         "g", "h", "i", "j", "k", "l", "m", "n", "o", "p", "q", "r", "s", "t", "u", "v",
         "w", "x", "y", "z", "0", "1", "2", "3", "4", "5", "6", "7", "8", "9", "+", "/" >>)

RECURSIVE base64_encode(_)
\* Three bytes become four characters; a short last group is padded with '='.
base64_encode(bs) ==
    LET sym(n) == BASE64_ALPHABET[n + 1]
    IN  IF bs = <<>> THEN <<>>
        ELSE IF Len(bs) = 1 THEN
            << sym(bs[1] \div 4), sym((bs[1] % 4) * 16), 61, 61 >>
        ELSE IF Len(bs) = 2 THEN
            << sym(bs[1] \div 4), sym((bs[1] % 4) * 16 + bs[2] \div 16),
               sym((bs[2] % 16) * 4), 61 >>
        ELSE << sym(bs[1] \div 4), sym((bs[1] % 4) * 16 + bs[2] \div 16),
                sym((bs[2] % 16) * 4 + bs[3] \div 64), sym(bs[3] % 64) >>
                \o base64_encode(Drop(bs, 3))

----------------------------------------------------------------------------
(* serde: the values a caller can serialize *)

VStr(s) == [kind |-> "str", s |-> s]
VInt(n) == [kind |-> "int", n |-> n]
VSeq(items) == [kind |-> "seq", items |-> items]          \* a sequence of values
VPairs(pairs) == [kind |-> "pairs", pairs |-> pairs]      \* a map, a struct, a slice of 2-tuples

IsScalar(v) == v.kind \in {"str", "int"}

RECURSIVE itoa_digits(_)
itoa_digits(n) ==
    IF n < 10 THEN <<48 + n>> ELSE itoa_digits(n \div 10) \o <<48 + (n % 10)>>

\* The decimal text of an integer.
itoa(n) == IF n < 0 THEN <<45>> \o itoa_digits(0 - n) ELSE itoa_digits(n)

\* The text of a scalar value.
scalar_text(v) == IF v.kind = "int" THEN itoa(v.n) ELSE v.s

\* form_urlencoded::byte_serialize: alphanumerics and * - . _ are kept, a space
\* becomes '+', every other byte is percent-encoded.
byte_serialize(bs) ==
    Concat([i \in 1..Len(bs) |->
        LET b == bs[i]
        IN  IF \/ b >= 48 /\ b <= 57
               \/ b >= 65 /\ b <= 90
               \/ b >= 97 /\ b <= 122
               \/ b \in {42, 45, 46, 95}
            THEN <<b>>
            ELSE IF b = 32 THEN <<43>>
            ELSE percent_byte(b)])

\* form_urlencoded::Serializer::append_pair on a target that started at `start`.
append_pair(target, start, name, value) ==
    (IF Len(target) > start THEN target \o <<38>> ELSE target)
        \o byte_serialize(name) \o <<61>> \o byte_serialize(value)

SerializeUrlError(detail) == [kind |-> "SerializeUrl", detail |-> detail]

RECURSIVE serialize_pairs(_, _, _)
\* The pairs are appended one by one; the first unsupported one ends it.
serialize_pairs(target, start, pairs) ==
    IF pairs = <<>> THEN Ok(target)
    ELSE LET p == Head(pairs)
         IN  IF ~IsScalar(p.k) THEN Err(SerializeUrlError("unsupported key"))
             ELSE IF ~IsScalar(p.v) THEN Err(SerializeUrlError("unsupported value"))
             ELSE serialize_pairs(
                    append_pair(target, start, scalar_text(p.k), scalar_text(p.v)),
                    start, Tail(pairs))

\* value.serialize(serde_urlencoded::Serializer::new(target))
urlencoded_serialize(target, start, value) ==
    IF value.kind = "pairs" THEN serialize_pairs(target, start, value.pairs)
    ELSE Err(SerializeUrlError("top-level serializer supports only maps and structs"))

\* serde_urlencoded::to_string(value)
urlencoded_to_string(value) == urlencoded_serialize(<<>>, 0, value)

SerializeJsonError(detail) == [kind |-> "SerializeJson", detail |-> detail]

\* A JSON string: quotes, with '"', '\' and control characters escaped.
json_string(s) ==
    <<34>> \o Concat([i \in 1..Len(s) |->
        LET b == s[i]
        IN  IF b = 34 THEN <<92, 34>>
            ELSE IF b = 92 THEN <<92, 92>>
            ELSE IF b = 8 THEN <<92, 98>>
            ELSE IF b = 9 THEN <<92, 116>>
            ELSE IF b = 10 THEN <<92, 110>>
            ELSE IF b = 12 THEN <<92, 102>>
            ELSE IF b = 13 THEN <<92, 114>>
            ELSE IF b < 32 THEN
                <<92, 117, 48, 48, HEX_CHARS_LOWER[(b \div 16) + 1],
                  HEX_CHARS_LOWER[(b % 16) + 1]>>
            ELSE <<b>>]) \o <<34>>

json_scalar(v) == IF v.kind = "int" THEN itoa(v.n) ELSE json_string(v.s)

\* A value one level deep: a scalar, or a sequence of scalars.
json_flat(v) ==
    IF IsScalar(v) THEN json_scalar(v)
    ELSE <<91>> \o Join([i \in 1..Len(v.items) |-> json_scalar(v.items[i])], <<44>>)
            \o <<93>>

\* serde_json::to_vec(value): a map key must be a string or a number.
json_to_vec(value) ==
    IF value.kind = "pairs" THEN
        IF \E i \in 1..Len(value.pairs) : ~IsScalar(value.pairs[i].k)
        THEN Err(SerializeJsonError("key must be a string"))
        ELSE Ok(<<123>>
                \o Join([i \in 1..Len(value.pairs) |->
                        json_string(scalar_text(value.pairs[i].k)) \o <<58>>
                            \o json_flat(value.pairs[i].v)], <<44>>)
                \o <<125>>)
    ELSE Ok(json_flat(value))

----------------------------------------------------------------------------
(* Error *)

\* Error::UrlParseError(#[from] url::ParseError)
Error_from_parse(e) == [kind |-> "UrlParseError", variant |-> "UrlParseError", source |-> e]
\* Error::BuilderError(BuilderError::Http(..))
BuilderError_Http(e) == [kind |-> "BuilderError", variant |-> "Http", source |-> e]
\* Error::BuilderError(BuilderError::SerializeUrl(..))
BuilderError_SerializeUrl(e) ==
    [kind |-> "BuilderError", variant |-> "SerializeUrl", source |-> e]
\* Error::BuilderError(BuilderError::SerializeJson(..))
BuilderError_SerializeJson(e) ==
    [kind |-> "BuilderError", variant |-> "SerializeJson", source |-> e]

Error_is_builder(e) == e.kind = "BuilderError"

----------------------------------------------------------------------------
(* Body, Request, Client *)

\* Body::from(bytes)
Body_from(bs) == [inner |-> bs]
Body_bytes(b) == b.inner

Version_default == "HTTP/1.1"
Extensions_new == <<>>

\* Request::new(method, url)
Request_new(method, u) ==
    [method |-> method,
     url |-> u,
     headers |-> HeaderMap_new,
     body |-> None,
     version |-> Version_default,
     extensions |-> Extensions_new]

\* Client::new(): a handle on the one pooled transport.
Client_new == [inner |-> "HyperClient::unix"]
Client_clone(c) == c

\* RequestBuilder::new(client, request)
RequestBuilder_new(client, request) == [client |-> client, request |-> request]

\* Client::request(method, socket, path)
Client_request(client, method, sock, path) ==
    LET u == UnixUrl_new(sock, path)
        req == IF IsOk(u) THEN Ok(Request_new(method, u.val))
               ELSE Err(Error_from_parse(u.val))
    IN  RequestBuilder_new(Client_clone(client), req)

\* The shortcuts that pass a method of their own where the mixed-up one passes
\* the method of its neighbour.
shortcut_method_mixed_up(via) ==
    IF via = "get" THEN "GET"
    ELSE IF via = "post" THEN "POST"
    ELSE IF via = "put" THEN "PUT"
    ELSE IF via = "patch" THEN "PUT"
    ELSE IF via = "delete" THEN "DELETE"
    ELSE "HEAD"

\* Client::get, post, put, patch, delete, head: the method each of them passes
\* to Client::request.
shortcut_method(via) ==
    IF via = "get" THEN "GET"
    ELSE IF via = "post" THEN "POST"
    ELSE IF via = "put" THEN "PUT"
    ELSE IF via = "patch" THEN "PATCH"
    ELSE IF via = "delete" THEN "DELETE"
    ELSE "HEAD"

----------------------------------------------------------------------------
(* RequestBuilder: every chained call takes the builder and returns it *)

\* A header_sensitive that replaces the values of the key.
header_sensitive_replacing(b, key, value, sensitive) ==
    IF IsOk(b.request) THEN
        LET k == HeaderName_try_from(key)
            v == HeaderValue_try_from(value)
        IN  IF IsErr(k) THEN [b EXCEPT !.request = Err(BuilderError_Http(k.val))]
            ELSE IF IsErr(v) THEN [b EXCEPT !.request = Err(BuilderError_Http(v.val))]
            ELSE [b EXCEPT !.request.val.headers =
                    HeaderMap_insert(@, k.val,
                        IF sensitive THEN [v.val EXCEPT !.sensitive = TRUE] ELSE v.val)]
    ELSE b

\* RequestBuilder::header_sensitive(key, value, sensitive)
header_sensitive(b, key, value, sensitive) ==
    IF IsOk(b.request) THEN
        LET k == HeaderName_try_from(key)
            v == HeaderValue_try_from(value)
        IN  IF IsErr(k) THEN [b EXCEPT !.request = Err(BuilderError_Http(k.val))]
            ELSE IF IsErr(v) THEN [b EXCEPT !.request = Err(BuilderError_Http(v.val))]
            ELSE [b EXCEPT !.request.val.headers =
                    HeaderMap_append(@, k.val,
                        IF sensitive THEN [v.val EXCEPT !.sensitive = TRUE] ELSE v.val)]
    ELSE b

\* RequestBuilder::header(key, value)
header(b, key, value) == header_sensitive(b, key, value, FALSE)

RECURSIVE merge_headers_appending(_, _, _)
\* A loop of headers() that appends every item to what the request holds.
merge_headers_appending(map, items, prev) ==
    IF items = <<>> THEN map
    ELSE LET it == Head(items)
             name == IF IsSome(it.key) THEN it.key ELSE prev
         IN  merge_headers_appending(
                IF IsSome(name) THEN HeaderMap_append(map, Unwrap(name), it.value) ELSE map,
                Tail(items), name)

RECURSIVE merge_headers(_, _, _)
\* The loop of headers(): a named item replaces, an unnamed one appends under
\* the name before it.
merge_headers(map, items, prev) ==
    IF items = <<>> THEN map
    ELSE LET it == Head(items)
         IN  IF IsSome(it.key)
             THEN merge_headers(HeaderMap_insert(map, Unwrap(it.key), it.value),
                                Tail(items), it.key)
             ELSE merge_headers(
                    IF IsSome(prev) THEN HeaderMap_append(map, Unwrap(prev), it.value)
                    ELSE map,
                    Tail(items), prev)

\* A headers() that passes over a collection that is no HeaderMap.
headers_skipping_invalid(b, bulk) ==
    IF IsOk(b.request) THEN
        LET m == HeaderMap_try_from(bulk)
        IN  IF IsOk(m)
            THEN [b EXCEPT !.request.val.headers =
                    merge_headers(@, HeaderMap_into_iter(m.val), None)]
            ELSE b
    ELSE b

\* RequestBuilder::headers(headers)
headers(b, bulk) ==
    IF IsOk(b.request) THEN
        LET m == HeaderMap_try_from(bulk)
        IN  IF IsOk(m)
            THEN [b EXCEPT !.request.val.headers =
                    merge_headers(@, HeaderMap_into_iter(m.val), None)]
            ELSE [b EXCEPT !.request = Err(BuilderError_Http(m.val))]
    ELSE b

BASIC_PREFIX == B(<<"B","a","s","i","c"," ">>)
BEARER_PREFIX == B(<<"B","e","a","r","e","r"," ">>)

\* A basic_auth that writes the colon also when there is no password.
basic_auth_always_colon(b, username, password) ==
    LET decode == username \o <<58>> \o (IF IsSome(password) THEN Unwrap(password) ELSE <<>>)
    IN  header_sensitive(b, KeyName(AUTHORIZATION),
                         ValStr(BASIC_PREFIX \o base64_encode(decode)), TRUE)

\* RequestBuilder::basic_auth(username, password)
basic_auth(b, username, password) ==
    LET decode == IF IsSome(password) THEN username \o <<58>> \o Unwrap(password)
                  ELSE username
        encode == base64_encode(decode)
    IN  header_sensitive(b, KeyName(AUTHORIZATION), ValStr(BASIC_PREFIX \o encode), TRUE)

\* A bearer_auth that puts its value in the place of the Authorization values
\* the request holds.
bearer_auth_replacing(b, token) ==
    header_sensitive_replacing(b, KeyName(AUTHORIZATION), ValStr(BEARER_PREFIX \o token), TRUE)

\* RequestBuilder::bearer_auth(token)
bearer_auth(b, token) ==
    header_sensitive(b, KeyName(AUTHORIZATION), ValStr(BEARER_PREFIX \o token), TRUE)

\* A body() that starts the headers over, as for a fresh payload.
body_resetting_headers(b, bs) ==
    IF IsOk(b.request)
    THEN [b EXCEPT !.request.val.body = Some(Body_from(bs)),
                   !.request.val.headers = HeaderMap_new]
    ELSE b

\* RequestBuilder::body(body)
body(b, bs) ==
    IF IsOk(b.request) THEN [b EXCEPT !.request.val.body = Some(Body_from(bs))] ELSE b

\* A query_pairs_mut that starts from an empty query whatever the URL held.
Url_query_pairs_mut_fresh(u) == [u EXCEPT !.query = Some(<<>>)]

\* Url::query_pairs_mut: an absent query becomes an empty one, to append to.
Url_query_pairs_mut(u) ==
    IF IsSome(u.query) THEN u ELSE [u EXCEPT !.query = Some(<<>>)]

\* The effect of serializing `value` through url.query_pairs_mut(): the pairs are
\* written after the query; an error is handed back (query() then drops the request).
query_serialize(u, value) ==
    LET opened == Url_query_pairs_mut(u.inner)
        out == urlencoded_serialize(Unwrap(opened.query), 0, value)
    IN  [url |-> [inner |-> IF IsOk(out) THEN [opened EXCEPT !.query = Some(out.val)]
                            ELSE opened],
         error |-> IF IsErr(out) THEN Some(out.val) ELSE None]

\* A normalisation that leaves the query as it is.
normalize_empty_query_skipped(u) == u

\* if let Some("") = req.url().query() { req.url_mut().set_query(None) }
normalize_empty_query(u) ==
    IF UnixUrl_query(u) = Some(<<>>) THEN UnixUrl_set_query(u, None) ELSE u

\* The two `if let Ok(ref mut req)` blocks of query() and its `if let Some(err)`.
query_on_ok(b, value) ==
    LET ser == query_serialize(b.request.val.url, value)
        normal == normalize_empty_query(ser.url)
    IN  IF IsSome(ser.error)
        THEN [b EXCEPT !.request = Err(BuilderError_SerializeUrl(Unwrap(ser.error)))]
        ELSE [b EXCEPT !.request.val.url = normal]

\* A query() that reports its own serialization error over a latched one.
query_relatching(b, value) ==
    IF IsOk(b.request) THEN query_on_ok(b, value)
    ELSE LET out == urlencoded_to_string(value)
         IN  IF IsErr(out)
             THEN [b EXCEPT !.request = Err(BuilderError_SerializeUrl(out.val))]
             ELSE b

\* RequestBuilder::query(query)
query(b, value) ==
    IF IsOk(b.request) THEN query_on_ok(b, value) ELSE b

\* RequestBuilder::version(version)
version(b, v) ==
    IF IsOk(b.request) THEN [b EXCEPT !.request.val.version = v] ELSE b

FORM_CONTENT_TYPE ==
    B(<<"a","p","p","l","i","c","a","t","i","o","n","/","x","-","w","w","w","-",
        "f","o","r","m","-","u","r","l","e","n","c","o","d","e","d">>)
JSON_CONTENT_TYPE ==
    B(<<"a","p","p","l","i","c","a","t","i","o","n","/","j","s","o","n">>)

\* A form() that adds its Content-Type after the values the request holds.
form_appending(b, value) ==
    IF IsOk(b.request) THEN
        LET out == urlencoded_to_string(value)
        IN  IF IsOk(out)
            THEN [b EXCEPT !.request.val.headers =
                        HeaderMap_append(@, CONTENT_TYPE, HeaderValue(FORM_CONTENT_TYPE, FALSE)),
                           !.request.val.body = Some(Body_from(out.val))]
            ELSE [b EXCEPT !.request = Err(BuilderError_SerializeUrl(out.val))]
    ELSE b

\* RequestBuilder::form(form)
form(b, value) ==
    IF IsOk(b.request) THEN
        LET out == urlencoded_to_string(value)
        IN  IF IsOk(out)
            THEN [b EXCEPT !.request.val.headers =
                        HeaderMap_insert(@, CONTENT_TYPE, HeaderValue(FORM_CONTENT_TYPE, FALSE)),
                           !.request.val.body = Some(Body_from(out.val))]
            ELSE [b EXCEPT !.request = Err(BuilderError_SerializeUrl(out.val))]
    ELSE b

\* RequestBuilder::json(json)
json(b, value) ==
    IF IsOk(b.request) THEN
        LET out == json_to_vec(value)
        IN  IF IsOk(out)
            THEN [b EXCEPT !.request.val.headers =
                        HeaderMap_insert(@, CONTENT_TYPE, HeaderValue(JSON_CONTENT_TYPE, FALSE)),
                           !.request.val.body = Some(Body_from(out.val))]
            ELSE [b EXCEPT !.request = Err(BuilderError_SerializeJson(out.val))]
    ELSE b

\* RequestBuilder::build()
build(b) == b.request

\* A try_clone that gives up on a request that carries a body.
try_clone_without_body(b) ==
    IF IsOk(b.request) /\ b.request.val.body = None
    THEN Some([client |-> Client_clone(b.client), request |-> Ok(b.request.val)])
    ELSE None

\* A try_clone that starts the clone over from the method and the URL.
try_clone_from_start(b) ==
    IF IsOk(b.request)
    THEN Some([client |-> Client_clone(b.client),
               request |-> Ok(Request_new(b.request.val.method, b.request.val.url))])
    ELSE None

\* RequestBuilder::try_clone()
try_clone(b) ==
    IF IsOk(b.request)
    THEN Some([client |-> Client_clone(b.client), request |-> Ok(b.request.val)])
    ELSE None

----------------------------------------------------------------------------
(* Error: the variants execute(), send() and a Response produce *)

\* Error::HttpError(#[from] http::Error)
Error_HttpError(e) == [kind |-> "HttpError", variant |-> "HttpError", source |-> e]
\* Error::HyperError(#[from] hyper::Error)
Error_HyperError(e) == [kind |-> "HyperError", variant |-> "HyperError", source |-> e]
\* Error::ClientError(#[from] hyper_util::client::legacy::Error)
Error_ClientError(e) == [kind |-> "ClientError", variant |-> "ClientError", source |-> e]

\* StatusError::new(code, reason)
StatusError_new(code, reason) == [code |-> code, reason |-> reason]
\* Error::StatusError(#[from] StatusError)
Error_StatusError(e) == [kind |-> "StatusError", variant |-> "StatusError", source |-> e]

\* Error::is_status
Error_is_status(e) == e.kind = "StatusError"
\* Error::status
Error_status(e) == IF e.kind = "StatusError" THEN Some(e.source.code) ELSE None
\* A hyper_util::client::legacy::Error of the connect kind.
ConnectFailed == [kind |-> "hyper_util::client::legacy::Error", connect |-> TRUE]
\* Error::is_connect
Error_is_connect(e) == e.kind = "ClientError" /\ e.source.connect

----------------------------------------------------------------------------
(* Uri: the address of a wire request *)

InvalidUri(detail) == [kind |-> "InvalidUri", detail |-> detail]

\* <Uri as FromStr>::from_str on a text that starts with "unix://": the
\* authority runs to the first '/', '?' or '#' and an absolute Uri needs one;
\* path and query run to the first '#', a Uri holds no fragment.  Every byte a
\* serialized Url holds after the authority is one a Uri accepts.
Uri_from_str(s) ==
    LET rest == Drop(s, Len(UNIX_SCHEME))
        authority_end == FirstIn(rest, {47, 63, 35}) - 1
        tail == Drop(rest, authority_end)
        fragment_at == FirstIn(tail, {35})
    IN  IF authority_end = 0 THEN Err(InvalidUri("InvalidFormat"))
        ELSE Ok([scheme |-> "unix",
                 authority |-> SubSeq(rest, 1, authority_end),
                 path_and_query |-> SubSeq(tail, 1, fragment_at - 1)])

\* <Uri as TryFrom<UnixUrl>>::try_from
Uri_try_from(u) ==
    LET uri == Uri_from_str(UnixUrl_as_str(u))
    IN  IF IsOk(uri) THEN uri ELSE Err(HttpError(uri.val))

----------------------------------------------------------------------------
(* Response *)

\* A frame of a body stream: data, trailers, or the error the stream ends with.
Frame_data(bs) == [kind |-> "data", data |-> bs]
Frame_trailers == [kind |-> "trailers", data |-> <<>>]
Frame_error(detail) == [kind |-> "error", data |-> <<>>, detail |-> detail]

\* The http::Response<Incoming> the transport hands over.  body holds the
\* frames the stream has yet to yield; served is the Uri of the wire request
\* the server answered.
http_Response(status, reason, frames, served) ==
    [status |-> status,
     version |-> "HTTP/1.1",
     headers |-> HeaderMap_new,
     reason |-> reason,
     body |-> frames,
     served |-> served]

\* Response::new(response, url), taking the address from the reply.
Response_new_from_reply(resp, u) ==
    [response |-> resp,
     url |-> LET parsed == Url_parse(UNIX_SCHEME \o resp.served.authority
                                        \o resp.served.path_and_query)
             IN  [inner |-> parsed.val]]

\* Response::new(response, url)
Response_new(resp, u) == [response |-> resp, url |-> u]

\* Response::status
Response_status(r) == r.response.status
\* Response::url
Response_url(r) == r.url

\* StatusCode::is_client_error, StatusCode::is_server_error
is_client_error(code) == 500 > code /\ code >= 400
is_server_error(code) == 600 > code /\ code >= 500

\* An error_for_status that only takes server errors for errors.
error_for_status_server_only(r) ==
    LET status == r.response.status
    IN  IF is_server_error(status)
        THEN Err(Error_StatusError(StatusError_new(status, r.response.reason)))
        ELSE Ok(r)

\* Response::error_for_status
error_for_status(r) ==
    LET status == r.response.status
    IN  IF is_client_error(status) \/ is_server_error(status)
        THEN Err(Error_StatusError(StatusError_new(status, r.response.reason)))
        ELSE Ok(r)

\* Response::error_for_status_ref
error_for_status_ref(r) ==
    LET status == r.response.status
    IN  IF is_client_error(status) \/ is_server_error(status)
        THEN Err(Error_StatusError(StatusError_new(status, r.response.reason)))
        ELSE Ok(r)

RECURSIVE collect(_, _)
\* BodyExt::collect: data frames go to the buffer list in arrival order,
\* trailers are kept aside, an error ends the collection.
collect(frames, acc) ==
    IF frames = <<>> THEN Ok(acc)
    ELSE LET frame == Head(frames)
         IN  IF frame.kind = "error" THEN Err(frame.detail)
             ELSE IF frame.kind = "data"
             THEN collect(Tail(frames), [acc EXCEPT !.bufs = Append(@, frame.data)])
             ELSE collect(Tail(frames), [acc EXCEPT !.trailers = TRUE])

\* Collected::to_bytes
Collected_to_bytes(c) == Concat(c.bufs)

\* A bytes() that returns what it has when a frame fails.
bytes_partial(r) ==
    LET upto == FirstIn([i \in 1..Len(r.response.body) |-> r.response.body[i].kind],
                        {"error"})
        test == collect(SubSeq(r.response.body, 1, upto - 1),
                        [bufs |-> <<>>, trailers |-> FALSE])
    IN  Ok(Collected_to_bytes(test.val))

\* Response::bytes
bytes(r) ==
    LET test == collect(r.response.body, [bufs |-> <<>>, trailers |-> FALSE])
    IN  IF IsOk(test) THEN Ok(Collected_to_bytes(test.val))
        ELSE Err(Error_HyperError(test.val))

\* A chunk() that hands over every data frame the stream holds at once.
chunk_draining(r) ==
    LET frames == r.response.body
    IN  IF frames = <<>> THEN [result |-> Ok(None), response |-> r]
        ELSE LET data == SelectSeq(frames, LAMBDA frame : frame.kind = "data")
             IN  [result |-> Ok(Some(Concat([i \in 1..Len(data) |-> data[i].data]))),
                  response |-> [r EXCEPT !.response.body = <<>>]]

\* A chunk() that lets go of the stream once it has handed over a data frame.
chunk_ending_early(r) ==
    LET frames == r.response.body
    IN  IF frames = <<>> THEN [result |-> Ok(None), response |-> r]
        ELSE LET frame == Head(frames)
             IN  IF frame.kind = "error"
                 THEN [result |-> Err(Error_HyperError(frame.detail)),
                       response |-> [r EXCEPT !.response.body = Tail(frames)]]
                 ELSE IF frame.kind = "data"
                 THEN [result |-> Ok(Some(frame.data)),
                       response |-> [r EXCEPT !.response.body = <<>>]]
                 ELSE [result |-> Ok(None),
                       response |-> [r EXCEPT !.response.body = Tail(frames)]]

\* Response::chunk: the result, and the response with what is left of its body.
chunk(r) ==
    LET frames == r.response.body
    IN  IF frames = <<>> THEN [result |-> Ok(None), response |-> r]
        ELSE LET frame == Head(frames)
                 rest == [r EXCEPT !.response.body = Tail(frames)]
             IN  IF frame.kind = "error"
                 THEN [result |-> Err(Error_HyperError(frame.detail)), response |-> rest]
                 ELSE IF frame.kind = "data"
                 THEN [result |-> Ok(Some(frame.data)), response |-> rest]
                 ELSE [result |-> Ok(None), response |-> rest]

----------------------------------------------------------------------------
(* Client::execute and RequestBuilder::send *)

\* Request::pieces
pieces(request) ==
    <<request.method, request.url, request.headers, request.body, request.version,
      request.extensions>>

\* Full::new(bytes), Bytes::new()
Full_new(bs) == [data |-> bs]
Bytes_new == <<>>

RECURSIVE insert_all(_, _, _)
\* Every item inserted under its name, or under the name before it.
insert_all(map, items, prev) ==
    IF items = <<>> THEN map
    ELSE LET it == Head(items)
             name == IF IsSome(it.key) THEN it.key ELSE prev
         IN  insert_all(IF IsSome(name) THEN HeaderMap_insert(map, Unwrap(name), it.value)
                        ELSE map,
                        Tail(items), name)

\* An extend that inserts every item, so the last value of a name is the one kept.
HeaderMap_extend_inserting(map, items) == insert_all(map, items, None)

\* HeaderMap::extend: an item with a name replaces what the map holds for it,
\* the unnamed items after it append under that name.
HeaderMap_extend(map, items) == merge_headers(map, items, None)

\* Extensions::extend
Extensions_extend(into, from) == into \o from

\* http::Request::builder().method(..).uri(..).version(..), the headers and
\* extensions put in when the builder holds no error, then body(..).
http_Request_build(method, u, ver, hdrs, extensions, payload) ==
    LET uri == Uri_try_from(u)
    IN  IF IsOk(uri)
        THEN Ok([method |-> method,
                 uri |-> uri.val,
                 version |-> ver,
                 headers |-> HeaderMap_extend(HeaderMap_new, HeaderMap_into_iter(hdrs)),
                 extensions |-> Extensions_extend(Extensions_new, extensions),
                 body |-> payload])
        ELSE uri

\* An execute that hands the request to the transport before it looks at the
\* result of the assembly.
execute_start_dispatching_first(client, request) ==
    LET p == pieces(request)
        payload == IF IsSome(p[4]) THEN Full_new(Body_bytes(Unwrap(p[4])))
                   ELSE Full_new(Bytes_new)
        req == http_Request_build(p[1], p[2], p[5], p[3], p[6], payload)
    IN  IF IsOk(req)
        THEN [returned |-> None, wire |-> Some(req.val), url |-> Some(p[2])]
        ELSE [returned |-> Some(Err(Error_ClientError(ConnectFailed))),
              wire |-> Some([method |-> p[1], uri |-> req.val, version |-> p[5],
                             headers |-> p[3], extensions |-> p[6], body |-> payload]),
              url |-> None]

\* Client::execute up to its await: the wire request to hand to the transport
\* and the url kept for the Response, or the error returned before any dispatch.
execute_start(client, request) ==
    LET p == pieces(request)
        payload == IF IsSome(p[4]) THEN Full_new(Body_bytes(Unwrap(p[4])))
                   ELSE Full_new(Bytes_new)
        req == http_Request_build(p[1], p[2], p[5], p[3], p[6], payload)
    IN  IF IsOk(req)
        THEN [returned |-> None, wire |-> Some(req.val), url |-> Some(p[2])]
        ELSE [returned |-> Some(Err(Error_HttpError(req.val))), wire |-> None, url |-> None]

\* A hand-over to the transport that is made twice.
dispatch_twice(log, t, wire) ==
    log \o <<[task |-> t, wire |-> wire], [task |-> t, wire |-> wire]>>

\* self.inner.request(req): the wire request is handed to the shared transport.
dispatch(log, t, wire) == Append(log, [task |-> t, wire |-> wire])

\* An execute that classifies the status of the reply.
execute_finish_classifying(u, outcome) ==
    IF IsOk(outcome) THEN error_for_status(Response_new(outcome.val, u))
    ELSE Err(Error_ClientError(outcome.val))

\* Client::execute from its await on: the outcome of the transport becomes the
\* Response, with the url of the request, or the error.
execute_finish(u, outcome) ==
    IF IsOk(outcome) THEN Ok(Response_new(outcome.val, u))
    ELSE Err(Error_ClientError(outcome.val))

\* A send that reports a failed construction as an error of its own.
send_start_rewrapping(b) ==
    IF IsOk(b.request) THEN execute_start(b.client, b.request.val)
    ELSE [returned |-> Some(Err(BuilderError_Http(b.request.val))),
          wire |-> None, url |-> None]

\* RequestBuilder::send up to the await of execute: the latched error is
\* returned at once, an Ok request goes to execute on the builder's client.
send_start(b) ==
    IF IsOk(b.request) THEN execute_start(b.client, b.request.val)
    ELSE [returned |-> Some(Err(b.request.val)), wire |-> None, url |-> None]

\* RequestBuilder::send after execute has returned.
send_finish(result) == result

----------------------------------------------------------------------------
(* The inputs the callers of this model pass *)

SOCKET == B(<<"/","t","m","p","/","m","y",".","s","o","c","k","e","t">>)

\* Socket paths of the codec runs: the one of the examples, and the non-empty
\* paths over '/', 'a', 0xC3 and 0xA9; the last two are UTF-8 only as the pair
\* C3 A9 in that order.
SocketBytes == {47, 97, 195, 169}
UrlSockets == (SeqsUpTo(SocketBytes, MaxSocketLen) \ {<<>>}) \cup {SOCKET}

\* Relative paths of the codec runs: over '/', 'a', '?', '#' and ' '.
RelBytes == {47, 97, 63, 35, 32}
UrlRels == SeqsUpTo(RelBytes, MaxRelLen)

SetPathInputs == {B(<<"/","b">>), B(<<"a","?","b">>)}
SetQueryInputs == {None, Some(B(<<"y","=","2">>)), Some(B(<<"a"," ","#">>))}

R_root == B(<<"/">>)
R_query == B(<<"/","p","?","x","=","1">>)
R_empty_query == B(<<"/","?">>)
R_fragment == B(<<"g","e","t","#","f">>)

\* (function, method, relative path) of the calls that start a builder: the
\* method is an argument of Client::request only.
RequestInputs ==
    { <<"get", "GET", R_root>>, <<"post", "POST", R_query>>,
      <<"request", "PUT", R_empty_query>>, <<"request", "GET", R_fragment>> }

S_foo == B(<<"f","o","o">>)
S_bar == B(<<"b","a","r">>)
S_baz == B(<<"b","a","z">>)
S_qux == B(<<"q","u","x">>)
S_a == B(<<"a">>)
S_b == B(<<"b">>)
S_control == <<97, 10, 98>>                   \* "a\nb"

\* (key, value) of header()
HeaderInputs ==
    { <<KeyStr(S_foo), ValStr(S_bar)>>,
      <<KeyStr(B(<<"F","o","o">>)), ValStr(S_baz)>>,
      <<KeyStr(B(<<"A","u","t","h","o","r","i","z","a","t","i","o","n">>)),
        ValStr(B(<<"t","o","k">>))>>,
      <<KeyName(CONTENT_TYPE), ValValue(B(<<"t","e","x","t","/","p","l","a","i","n">>), FALSE)>>,
      <<KeyStr(B(<<"a"," ","b">>)), ValStr(S_bar)>>,
      <<KeyStr(S_foo), ValStr(S_control)>> }

H_foo_bar_baz ==
    <<[name |-> S_foo, values |-> <<HeaderValue(S_bar, FALSE), HeaderValue(S_baz, FALSE)>>]>>
H_keeper_foo ==
    <<[name |-> B(<<"i","m","-","a">>),
       values |-> <<HeaderValue(B(<<"k","e","e","p","e","r">>), FALSE)>>],
      [name |-> S_foo, values |-> <<HeaderValue(S_qux, TRUE)>>]>>

\* bulk of headers()
BulkInputs ==
    { BulkMap(H_foo_bar_baz), BulkMap(H_keeper_foo), BulkInvalid("InvalidHeaderName") }

S_Aladdin == B(<<"A","l","a","d","d","i","n">>)
S_open_sesame == B(<<"o","p","e","n"," ","s","e","s","a","m","e">>)

\* (username, password) of basic_auth()
BasicAuthInputs == { <<S_Aladdin, Some(S_open_sesame)>>, <<S_Aladdin, None>> }

S_hold_my_bear == B(<<"H","o","l","d"," ","m","y"," ","b","e","a","r">>)

\* token of bearer_auth()
BearerInputs == { S_hold_my_bear, S_control }

\* body of body()
BodyInputs == { B(<<"f","r","o","m"," ","a"," ","&","s","t","r","!">>), <<>> }

Pair(k, v) == [k |-> k, v |-> v]

Q_empty == VPairs(<<>>)
Q_foo_bar == VPairs(<<Pair(VStr(S_foo), VStr(S_bar))>>)
Q_qux_3 == VPairs(<<Pair(VStr(S_qux), VInt(3))>>)
Q_foo_a_foo_b == VPairs(<<Pair(VStr(S_foo), VStr(S_a)), Pair(VStr(S_foo), VStr(S_b))>>)
Q_escaped == VPairs(<<Pair(VStr(B(<<"a"," ","b">>)), VStr(B(<<"c","&","=">>)))>>)
Q_scalar == VStr(S_foo)
Q_nested == VPairs(<<Pair(VStr(S_foo), VStr(S_bar)), Pair(VStr(S_qux), VSeq(<<VInt(1)>>))>>)

\* value of query()
QueryInputs ==
    { Q_empty, Q_foo_bar, Q_qux_3, Q_foo_a_foo_b, Q_escaped, Q_scalar, Q_nested }

\* version of version()
VersionInputs == { "HTTP/1.0", "HTTP/2.0" }

\* value of form()
FormInputs == { VPairs(<<Pair(VStr(S_foo), VStr(S_bar)), Pair(VStr(S_baz), VInt(12))>>), Q_scalar }

J_lang_rust ==
    VPairs(<<Pair(VStr(B(<<"l","a","n","g">>)), VStr(B(<<"r","\"","s">>))),
             Pair(VInt(7), VSeq(<<VInt(1), VStr(S_a)>>))>>)
J_bad_key == VPairs(<<Pair(VSeq(<<VInt(1)>>), VStr(S_a))>>)

\* value of json()
JsonInputs == { J_lang_rust, J_bad_key }

\* (function, method) of every way to start a builder, the method being an
\* argument of Client::request only, and the socket paths they are tried on:
\* the one of the examples, the empty path, and one that is not UTF-8.
StartInputs ==
    { <<"request", "GET">>, <<"request", "OPTIONS">>, <<"get", "">>, <<"post", "">>,
      <<"put", "">>, <<"patch", "">>, <<"delete", "">>, <<"head", "">> }
StartSockets == {SOCKET, <<>>, <<47, 169>>}

\* The starts and the chained calls of the runs with a clone.
R_post == B(<<"/","p","o","s","t">>)
CloneStarts == { <<"post", "POST", R_post>>, <<"get", "GET", R_query>> }
CloneCalls ==
    { [op |-> "header", args |-> [key |-> KeyStr(S_foo), value |-> ValStr(S_bar)]],
      [op |-> "body", args |-> [body |-> B(<<"f","r","o","m"," ","a"," ","&","s","t","r","!">>)]],
      [op |-> "query", args |-> [value |-> Q_foo_bar]],
      [op |-> "bearer_auth", args |-> [token |-> S_control]] }

\* The runs that send: (function, method, socket, relative path) of the starts,
\* one of them on the empty socket path, the chained calls, and what the
\* transport can come back with.
SendStarts ==
    { <<"get", "", SOCKET, R_root>>, <<"post", "", SOCKET, R_fragment>>,
      <<"get", "", <<>>, R_root>> }
ConcurrentStarts ==
    { <<"get", "", SOCKET, R_root>>, <<"post", "", SOCKET, R_fragment>> }
SendBulk == BulkMap(H_foo_bar_baz)
SendBody == B(<<"f","r","o","m"," ","a"," ","&","s","t","r","!">>)
SendStatuses == {200, 404, 500}

\* The replies of a server: status codes on both sides of every class border,
\* a reason phrase or none, and body streams of up to MaxFrames data frames
\* that end plainly, with trailers, or with an error.
StatusInputs == {100, 200, 204, 301, 399, 400, 404, 499, 500, 503, 599, 600}
ReasonInputs == {None, Some(B(<<"O","o","p","s">>))}
S_Hello == B(<<"H","e","l","l","o",","," ">>)
S_World == B(<<"W","o","r","l","d","!">>)
DataFrames == {Frame_data(S_Hello), Frame_data(S_World)}
StreamEnds == {<<>>, <<Frame_trailers>>, <<Frame_error("IncompleteMessage")>>}
StreamInputs == {ds \o end : ds \in SeqsUpTo(DataFrames, MaxFrames), end \in StreamEnds}

----------------------------------------------------------------------------
(* The state machine *)

NoBuilder == [client |-> Client_new, request |-> Err([kind |-> "none"])]
NoCall == [op |-> "none"]
NoChunks == [got |-> <<>>, end |-> "open"]
NoTwin == [response |-> None, read |-> None]

Tasks == 1..MaxTasks
NoTask ==
    [pc |-> "free", via |-> "none", given |-> Err([kind |-> "none"]), url |-> None,
     outcome |-> None, result |-> None]

Init ==
    /\ pc = "idle"
    /\ socket = <<>>
    /\ rel = <<>>
    /\ url = Err([kind |-> "none"])
    /\ edited = FALSE
    /\ builder = NoBuilder
    /\ calls = 0
    /\ last = NoCall
    /\ cloned = None
    /\ built = None
    /\ first_error = None
    /\ snapshot = NoBuilder
    /\ touched = {}
    /\ tasks = [t \in Tasks |-> NoTask]
    /\ wire_log = <<>>
    /\ response = None
    /\ reading = NoCall
    /\ chunks = NoChunks
    /\ twin = NoTwin

builderVars == <<builder, calls, last, cloned, built, first_error>>
urlVars == <<url, edited>>
cloneVars == <<snapshot, touched>>
sendVars == <<tasks, wire_log>>
respVars == <<response, reading, chunks, twin>>
extVars == <<cloneVars, sendVars, respVars>>

(* The codec on its own *)

\* UnixUrl::new(socket, path)
UrlNew(sock, path) ==
    /\ pc = "idle"
    /\ pc' = "made"
    /\ socket' = sock
    /\ rel' = path
    /\ url' = UnixUrl_new(sock, path)
    /\ UNCHANGED <<edited, builderVars, extVars>>

\* UnixUrl::set_path(path)
UrlSetPath(path) ==
    /\ pc = "made"
    /\ IsOk(url)
    /\ url' = Ok(UnixUrl_set_path(url.val, path))
    /\ edited' = TRUE
    /\ UNCHANGED <<pc, socket, rel, builderVars, extVars>>

\* UnixUrl::set_query(query)
UrlSetQuery(q) ==
    /\ pc = "made"
    /\ IsOk(url)
    /\ url' = Ok(UnixUrl_set_query(url.val, q))
    /\ edited' = TRUE
    /\ UNCHANGED <<pc, socket, rel, builderVars, extVars>>

NextUrl ==
    \/ pc = "idle" /\ \E sock \in UrlSockets, path \in UrlRels : UrlNew(sock, path)
    \/ \E path \in SetPathInputs : UrlSetPath(path)
    \/ \E q \in SetQueryInputs : UrlSetQuery(q)

SpecUrl == Init /\ [][NextUrl]_vars

(* The builder chain *)

\* The error a builder's state holds, if any.
ErrorOf(b) == IF IsErr(b.request) THEN Some(b.request.val) ELSE None

\* The call of the client that starts a builder, by the name of the function.
Client_call(client, via, method, sock, path) ==
    Client_request(client, IF via = "request" THEN method ELSE shortcut_method(via),
                   sock, path)

\* client.request(method, socket, path), client.get(socket, path), ...
ClientRequest(via, method, sock, path) ==
    /\ pc = "idle"
    /\ pc' = "building"
    /\ socket' = sock
    /\ rel' = path
    /\ builder' = Client_call(Client_new, via, method, sock, path)
    /\ last' = [op |-> "request", via |-> via, method |-> method, pre |-> NoBuilder]
    /\ first_error' = ErrorOf(builder')
    /\ UNCHANGED <<urlVars, calls, cloned, built, extVars>>

\* One chained call: the builder is consumed and the returned one takes its place.
Chain(op, args, next) ==
    /\ pc = "building"
    /\ calls < MaxCalls
    /\ builder' = next
    /\ calls' = calls + 1
    /\ last' = [op |-> op, args |-> args, pre |-> builder]
    /\ first_error' = IF IsSome(first_error) THEN first_error ELSE ErrorOf(next)
    /\ UNCHANGED <<pc, socket, rel, urlVars, cloned, built, extVars>>

Header(key, value) ==
    Chain("header", [key |-> key, value |-> value], header(builder, key, value))

Headers(bulk) == Chain("headers", [bulk |-> bulk], headers(builder, bulk))

BasicAuth(username, password) ==
    Chain("basic_auth", [username |-> username, password |-> password],
          basic_auth(builder, username, password))

BearerAuth(token) == Chain("bearer_auth", [token |-> token], bearer_auth(builder, token))

SetBody(bs) == Chain("body", [body |-> bs], body(builder, bs))

Query(value) == Chain("query", [value |-> value], query(builder, value))

SetVersion(v) == Chain("version", [version |-> v], version(builder, v))

Form(value) == Chain("form", [value |-> value], form(builder, value))

Json(value) == Chain("json", [value |-> value], json(builder, value))

\* builder.try_clone(): takes &self, the builder stays as it is.
TryClone ==
    /\ pc = "building"
    /\ calls < MaxCalls
    /\ cloned' = try_clone(builder)
    /\ calls' = calls + 1
    /\ last' = [op |-> "try_clone", args |-> <<>>, pre |-> builder]
    /\ UNCHANGED <<pc, socket, rel, urlVars, builder, built, first_error, extVars>>

\* builder.build(): the builder is consumed.
Build ==
    /\ pc = "building"
    /\ pc' = "built"
    /\ built' = Some(build(builder))
    /\ UNCHANGED <<socket, rel, urlVars, builder, calls, last, cloned, first_error, extVars>>

Next ==
    \/ \E r \in RequestInputs : ClientRequest(r[1], r[2], SOCKET, r[3])
    \/ \E h \in HeaderInputs : Header(h[1], h[2])
    \/ \E bulk \in BulkInputs : Headers(bulk)
    \/ \E a \in BasicAuthInputs : BasicAuth(a[1], a[2])
    \/ \E token \in BearerInputs : BearerAuth(token)
    \/ \E bs \in BodyInputs : SetBody(bs)
    \/ \E value \in QueryInputs : Query(value)
    \/ \E v \in VersionInputs : SetVersion(v)
    \/ \E value \in FormInputs : Form(value)
    \/ \E value \in JsonInputs : Json(value)
    \/ TryClone
    \/ Build

Spec == Init /\ [][Next]_vars

(* The start of a builder *)

NextStart ==
    \/ pc = "idle" /\ \E s \in StartInputs, sock \in StartSockets, path \in UrlRels :
            ClientRequest(s[1], s[2], sock, path)
    \/ Build

SpecStart == Init /\ [][NextStart]_vars

(* A builder and its clone *)

\* A chained call by its name and arguments.
Apply(b, c) ==
    IF c.op = "header" THEN header(b, c.args.key, c.args.value)
    ELSE IF c.op = "body" THEN body(b, c.args.body)
    ELSE IF c.op = "query" THEN query(b, c.args.value)
    ELSE bearer_auth(b, c.args.token)

\* A chained call on the builder before it is cloned.
Call(c) == Chain(c.op, c.args, Apply(builder, c))

\* builder.try_clone() on an Ok builder: from here on the caller holds both.
Fork ==
    /\ pc = "building"
    /\ IsSome(try_clone(builder))
    /\ pc' = "forked"
    /\ cloned' = try_clone(builder)
    /\ snapshot' = builder
    /\ touched' = {}
    /\ last' = [op |-> "try_clone", args |-> <<>>, pre |-> builder]
    /\ UNCHANGED <<socket, rel, urlVars, builder, calls, built, first_error,
                   sendVars, respVars>>

\* A chained call on the original after the cloning.
OnOriginal(c) ==
    /\ pc = "forked"
    /\ calls < MaxCalls
    /\ builder' = Apply(builder, c)
    /\ calls' = calls + 1
    /\ touched' = touched \cup {"original"}
    /\ last' = [op |-> c.op, args |-> c.args, pre |-> builder, on |-> "original",
                other |-> Unwrap(cloned)]
    /\ UNCHANGED <<pc, socket, rel, urlVars, cloned, built, first_error, snapshot,
                   sendVars, respVars>>

\* A chained call on the clone.
OnClone(c) ==
    /\ pc = "forked"
    /\ calls < MaxCalls
    /\ cloned' = Some(Apply(Unwrap(cloned), c))
    /\ calls' = calls + 1
    /\ touched' = touched \cup {"clone"}
    /\ last' = [op |-> c.op, args |-> c.args, pre |-> Unwrap(cloned), on |-> "clone",
                other |-> builder]
    /\ UNCHANGED <<pc, socket, rel, urlVars, builder, built, first_error, snapshot,
                   sendVars, respVars>>

\* clone.build(): the clone is consumed.
BuildClone ==
    /\ pc = "forked"
    /\ pc' = "clone_built"
    /\ built' = Some(build(Unwrap(cloned)))
    /\ UNCHANGED <<socket, rel, urlVars, builder, calls, last, cloned, first_error,
                   extVars>>

NextClone ==
    \/ \E r \in CloneStarts : ClientRequest(r[1], r[2], SOCKET, r[3])
    \/ \E c \in CloneCalls : Call(c)
    \/ Fork
    \/ \E c \in CloneCalls : OnOriginal(c)
    \/ \E c \in CloneCalls : OnClone(c)
    \/ BuildClone

SpecClone == Init /\ [][NextClone]_vars

(* send() and execute() over the shared transport *)

\* The first task that is free.
FreeTask == CHOOSE t \in Tasks : tasks[t].pc = "free" /\ \A s \in 1..(t - 1) : tasks[s].pc # "free"

\* The wire request the transport holds for a task.
Dispatched(t) ==
    LET i == CHOOSE i \in 1..Len(wire_log) :
                wire_log[i].task = t /\ \A j \in (i + 1)..Len(wire_log) : wire_log[j].task # t
    IN  wire_log[i].wire

\* A call is under way: the task holds what it was given and either has
\* returned already or waits for the transport; the caller is free again.
Start(t, via, given, st) ==
    /\ tasks' = [tasks EXCEPT ![t] =
                    [pc |-> IF IsSome(st.returned) THEN "done" ELSE "awaiting",
                     via |-> via, given |-> given, url |-> st.url, outcome |-> None,
                     result |-> st.returned]]
    /\ wire_log' = IF IsSome(st.wire) THEN dispatch(wire_log, t, Unwrap(st.wire))
                   ELSE wire_log
    /\ pc' = "idle"
    /\ socket' = <<>>
    /\ rel' = <<>>
    /\ builder' = NoBuilder
    /\ calls' = 0
    /\ last' = NoCall
    /\ built' = None
    /\ first_error' = None
    /\ UNCHANGED <<urlVars, cloned, cloneVars, respVars>>

\* builder.send(), up to the point where it waits for the transport.
Send ==
    /\ pc = "building"
    /\ \E t \in Tasks : tasks[t].pc = "free"
    /\ Start(FreeTask, "send", builder.request, send_start(builder))

\* client.execute(request) on the Request build() has returned.
Execute ==
    /\ pc = "built"
    /\ IsOk(Unwrap(built))
    /\ \E t \in Tasks : tasks[t].pc = "free"
    /\ Start(FreeTask, "execute", Unwrap(built),
             execute_start(builder.client, Unwrap(built).val))

\* The transport has the reply of the server to the wire request of a task.
TransportReply(t, status) ==
    /\ tasks[t].pc = "awaiting"
    /\ tasks[t].outcome = None
    /\ tasks' = [tasks EXCEPT ![t].outcome =
                    Some(Ok(http_Response(status, None, <<>>, Dispatched(t).uri)))]
    /\ UNCHANGED <<pc, socket, rel, urlVars, builderVars, cloneVars, wire_log, respVars>>

\* The transport fails on the wire request of a task.
TransportFail(t) ==
    /\ tasks[t].pc = "awaiting"
    /\ tasks[t].outcome = None
    /\ tasks' = [tasks EXCEPT ![t].outcome = Some(Err(ConnectFailed))]
    /\ UNCHANGED <<pc, socket, rel, urlVars, builderVars, cloneVars, wire_log, respVars>>

\* The call of a task goes on after its await and returns.
Resume(t) ==
    /\ tasks[t].pc = "awaiting"
    /\ IsSome(tasks[t].outcome)
    /\ LET r == execute_finish(Unwrap(tasks[t].url), Unwrap(tasks[t].outcome))
       IN  tasks' = [tasks EXCEPT ![t].pc = "done",
                                  ![t].result = Some(IF tasks[t].via = "send"
                                                     THEN send_finish(r) ELSE r)]
    /\ UNCHANGED <<pc, socket, rel, urlVars, builderVars, cloneVars, wire_log, respVars>>

\* No call has been made yet.
Quiet == \A t \in Tasks : tasks[t].pc = "free"

\* One call at a time, on requests of every make.
NextSend ==
    \/ \E r \in SendStarts : ClientRequest(r[1], r[2], r[3], r[4])
    \/ calls < MaxSendCalls /\ Headers(SendBulk)
    \/ calls < MaxSendCalls /\ SetBody(SendBody)
    \/ calls < MaxSendCalls /\ \E v \in VersionInputs : SetVersion(v)
    \/ calls < MaxSendCalls /\ BearerAuth(S_control)
    \/ Build
    \/ Quiet /\ Send
    \/ Quiet /\ Execute
    \/ \E t \in Tasks, status \in SendStatuses : TransportReply(t, status)
    \/ \E t \in Tasks : TransportFail(t)
    \/ \E t \in Tasks : Resume(t)

SpecSend == Init /\ [][NextSend]_vars

\* Up to MaxTasks calls at a time, on clones of the one client: a call starts
\* while others wait, and the transport answers them in any order.
NextConcurrent ==
    \/ \E r \in ConcurrentStarts : ClientRequest(r[1], r[2], r[3], r[4])
    \/ Send
    \/ \E t \in Tasks, status \in SendStatuses : TransportReply(t, status)
    \/ \E t \in Tasks : TransportFail(t)
    \/ \E t \in Tasks : Resume(t)

SpecConcurrent == Init /\ [][NextConcurrent]_vars

(* A Response in the hands of its caller *)

\* client.get(SOCKET, "/").send() has returned Ok(response) for a reply, and
\* so has the same request sent once more to the same server.
Receive(status, reason, frames) ==
    /\ pc = "idle"
    /\ pc' = "received"
    /\ LET u == UnixUrl_new(SOCKET, R_root).val
           reply == http_Response(status, reason, frames, Uri_try_from(u).val)
       IN  /\ response' = Some(execute_finish(u, Ok(reply)).val)
           /\ twin' = [response |-> Some(execute_finish(u, Ok(reply)).val), read |-> None]
    /\ reading' = [op |-> "receive", fresh |-> TRUE]
    /\ chunks' = NoChunks
    /\ UNCHANGED <<socket, rel, urlVars, builderVars, cloneVars, sendVars>>

\* response.chunk()
Chunk ==
    /\ pc = "received"
    /\ LET c == chunk(Unwrap(response))
       IN  /\ response' = Some(c.response)
           /\ reading' = [op |-> "chunk", pre |-> Unwrap(response), result |-> c.result,
                          fresh |-> FALSE]
           /\ chunks' = IF chunks.end # "open" THEN chunks
                         ELSE IF IsErr(c.result) THEN [chunks EXCEPT !.end = "error"]
                         ELSE IF IsSome(c.result.val)
                         THEN [chunks EXCEPT !.got = Append(@, Unwrap(c.result.val))]
                         ELSE [chunks EXCEPT !.end = "none"]
    /\ UNCHANGED <<pc, socket, rel, urlVars, builderVars, cloneVars, sendVars, twin>>

\* response.bytes(): the response is consumed.
Bytes ==
    /\ pc = "received"
    /\ pc' = "consumed"
    /\ response' = None
    /\ reading' = [op |-> "bytes", pre |-> Unwrap(response),
                   result |-> bytes(Unwrap(response)), fresh |-> reading.fresh]
    /\ UNCHANGED <<socket, rel, urlVars, builderVars, cloneVars, sendVars, chunks, twin>>

\* bytes() on the response to the request sent again.
TwinBytes ==
    /\ IsSome(twin.response)
    /\ twin' = [response |-> None, read |-> Some(bytes(Unwrap(twin.response)))]
    /\ UNCHANGED <<pc, socket, rel, urlVars, builderVars, cloneVars, sendVars,
                   response, reading, chunks>>

\* response.error_for_status(): the response is consumed and, when the status
\* is no error, handed back.
ErrorForStatus ==
    /\ pc = "received"
    /\ LET r == error_for_status(Unwrap(response))
       IN  /\ pc' = IF IsOk(r) THEN "received" ELSE "consumed"
           /\ response' = IF IsOk(r) THEN Some(r.val) ELSE None
           /\ reading' = [op |-> "error_for_status", pre |-> Unwrap(response),
                          result |-> r, fresh |-> reading.fresh]
    /\ UNCHANGED <<socket, rel, urlVars, builderVars, cloneVars, sendVars, chunks, twin>>

\* response.error_for_status_ref()
ErrorForStatusRef ==
    /\ pc = "received"
    /\ reading' = [op |-> "error_for_status_ref", pre |-> Unwrap(response),
                   result |-> error_for_status_ref(Unwrap(response)),
                   fresh |-> reading.fresh]
    /\ UNCHANGED <<pc, socket, rel, urlVars, builderVars, cloneVars, sendVars, response,
                   chunks, twin>>

NextResponse ==
    \/ \E status \in StatusInputs, reason \in ReasonInputs, frames \in StreamInputs :
            Receive(status, reason, frames)
    \/ Chunk
    \/ Bytes
    \/ TwinBytes
    \/ ErrorForStatus
    \/ ErrorForStatusRef

SpecResponse == Init /\ [][NextResponse]_vars

----------------------------------------------------------------------------
(* Reading a query string back: application/x-www-form-urlencoded parsing *)

RECURSIVE SplitOn(_, _)
\* The pieces of s between the occurrences of sep.
SplitOn(s, sep) ==
    LET i == FirstIn(s, {sep})
    IN  IF i > Len(s) THEN <<s>> ELSE <<SubSeq(s, 1, i - 1)>> \o SplitOn(Drop(s, i), sep)

IsHexDigit(b) == (b >= 48 /\ b <= 57) \/ (b >= 65 /\ b <= 70) \/ (b >= 97 /\ b <= 102)
HexDigitVal(b) == IF b <= 57 THEN b - 48 ELSE IF b <= 70 THEN b - 55 ELSE b - 87

RECURSIVE percent_decode(_)
percent_decode(s) ==
    IF s = <<>> THEN <<>>
    ELSE IF s[1] = 37 /\ Len(s) >= 3 /\ IsHexDigit(s[2]) /\ IsHexDigit(s[3])
    THEN <<16 * HexDigitVal(s[2]) + HexDigitVal(s[3])>> \o percent_decode(Drop(s, 3))
    ELSE <<s[1]>> \o percent_decode(Tail(s))

form_decode(s) == percent_decode([i \in 1..Len(s) |-> IF s[i] = 43 THEN 32 ELSE s[i]])

\* The (name, value) pairs a query string stands for, in order.
parse_pairs(q) ==
    LET parts == SelectSeq(SplitOn(q, 38), LAMBDA part : part # <<>>)
    IN  [i \in 1..Len(parts) |->
            LET j == FirstIn(parts[i], {61})
            IN  <<form_decode(SubSeq(parts[i], 1, j - 1)), form_decode(Drop(parts[i], j))>>]

\* The pairs of an optional query string.
QueryPairs(q) == IF IsSome(q) THEN parse_pairs(Unwrap(q)) ELSE <<>>

\* The (name, value) texts of the pairs a caller passes to query().
GivenPairs(value) ==
    [i \in 1..Len(value.pairs) |->
        <<scalar_text(value.pairs[i].k), scalar_text(value.pairs[i].v)>>]

----------------------------------------------------------------------------
(* Properties *)

Mutators ==
    {"header", "headers", "basic_auth", "bearer_auth", "body", "query", "version",
     "form", "json"}

Chaining == pc \in {"building", "built"}

\* The request before and after the last call (when the builder holds one).
Pre == last.pre.request.val
Post == builder.request.val
PreOk == IsOk(last.pre.request)
PostOk == IsOk(builder.request)

\* C1: once the builder's state is Err, every mutator leaves the builder as it
\* is, the state stays the first error whatever is called later, and build()
\* returns that first error.
C1_BuilderLatch ==
    /\ (Chaining /\ IsSome(first_error)) => builder.request = Err(Unwrap(first_error))
    /\ (Chaining /\ last.op \in Mutators /\ ~PreOk) => builder = last.pre
    /\ (pc = "built" /\ IsSome(first_error)) => built = Some(Err(Unwrap(first_error)))

\* A chain whose first failure was a header and whose last call, a form() of a
\* value that does not serialize, came after it; build() has returned.
C1_Witness ==
    /\ pc = "built"
    /\ IsSome(first_error)
    /\ Unwrap(first_error).variant = "Http"
    /\ last.op = "form"
    /\ last.args.value = Q_scalar
    /\ ~PreOk
    /\ IsSome(built)

\* C2: hex-decoding the authority of UnixUrl::new(P, rel) gives the bytes of P.
C2_RoundTrip ==
    (pc = "made" /\ IsOk(url)) => hex_decode(Authority(url.val)) = socket

\* C3: the authority of a UnixUrl, also after set_path / set_query, is a
\* non-empty string over [0-9a-f] of twice the byte length of the socket path.
C3_AuthorityInvariant ==
    (pc = "made" /\ IsOk(url)) =>
        /\ Authority(url.val) # <<>>
        /\ IsLowerHex(Authority(url.val))
        /\ Len(Authority(url.val)) = 2 * Len(socket)

URL_tmp_my_socket ==
    B(<<"u","n","i","x",":","/","/","2","f","7","4","6","d","7","0","2","f","6","d","7","9",
        "2","e","7","3","6","f","6","3","6","b","6","5","7","4","/">>)

\* C4: UnixUrl::new(P, rel) serializes to "unix://" + lowercase-hex(P) + rel',
\* rel' being rel with a '/' put in front unless it starts with one; for
\* ("/tmp/my.socket", "/") that is unix://2f746d702f6d792e736f636b6574/.
C4_EncodingFormat ==
    (pc = "made" /\ ~edited /\ IsOk(url)) =>
        /\ UnixUrl_as_str(url.val)
              = UNIX_SCHEME \o hex_encode(socket)
                    \o (IF rel # <<>> /\ rel[1] = 47 THEN rel ELSE <<47>> \o rel)
        /\ (socket = SOCKET /\ rel = R_root) => UnixUrl_as_str(url.val) = URL_tmp_my_socket

Q_foo_bar_text == B(<<"f","o","o","=","b","a","r">>)
Q_foo_bar_qux_3_text == B(<<"f","o","o","=","b","a","r","&","q","u","x","=","3">>)
Q_foo_a_foo_b_text == B(<<"f","o","o","=","a","&","f","o","o","=","b">>)

\* C5: a query() call that succeeds leaves in the URL the pairs it held before
\* followed by the pairs given, in order, duplicates kept; [(foo,bar)] then
\* [(qux,3)] gives "foo=bar&qux=3", [(foo,a),(foo,b)] gives "foo=a&foo=b".
C5_QueryAccumulates ==
    (Chaining /\ last.op = "query" /\ PreOk /\ PostOk) =>
        /\ QueryPairs(UnixUrl_query(Post.url))
              = QueryPairs(UnixUrl_query(Pre.url)) \o GivenPairs(last.args.value)
        /\ (UnixUrl_query(Pre.url) = None /\ last.args.value = Q_foo_bar)
              => UnixUrl_query(Post.url) = Some(Q_foo_bar_text)
        /\ (UnixUrl_query(Pre.url) = Some(Q_foo_bar_text) /\ last.args.value = Q_qux_3)
              => UnixUrl_query(Post.url) = Some(Q_foo_bar_qux_3_text)
        /\ (UnixUrl_query(Pre.url) = None /\ last.args.value = Q_foo_a_foo_b)
              => UnixUrl_query(Post.url) = Some(Q_foo_a_foo_b_text)

\* query([(qux,3)]) has just been called on a builder whose URL held "foo=bar".
C5_Witness ==
    /\ pc = "building"
    /\ last.op = "query"
    /\ last.args.value = Q_qux_3
    /\ PreOk
    /\ UnixUrl_query(Pre.url) = Some(Q_foo_bar_text)
    /\ PostOk
    /\ UnixUrl_query(Post.url) = Some(Q_foo_bar_qux_3_text)

\* C6: after a query() call that leaves the builder Ok the query is absent or
\* non-empty; query([]) on a URL without a query leaves it absent and the
\* serialized URL as it was.
C6_EmptyQueryNormalized ==
    (Chaining /\ last.op = "query" /\ PreOk) =>
        /\ PostOk => UnixUrl_query(Post.url) # Some(<<>>)
        /\ (last.args.value = Q_empty /\ UnixUrl_query(Pre.url) = None) =>
              /\ PostOk
              /\ UnixUrl_query(Post.url) = None
              /\ UnixUrl_as_str(Post.url) = UnixUrl_as_str(Pre.url)

\* query([]) has just been called on the fresh builder of get(socket, "/").
C6_Witness ==
    /\ pc = "building"
    /\ last.op = "query"
    /\ last.args.value = Q_empty
    /\ PreOk
    /\ UnixUrl_query(Pre.url) = None
    /\ PostOk
    /\ UnixUrl_as_str(Post.url) = URL_tmp_my_socket

\* C7: after headers(bulk) on an Ok builder every key of bulk holds exactly
\* bulk's values in bulk's order, and every other key holds what it held.
C7_HeadersMerge ==
    (Chaining /\ last.op = "headers" /\ PreOk /\ last.args.bulk.kind = "map") =>
        /\ PostOk
        /\ HeaderMap_keys(Post.headers)
              = HeaderMap_keys(Pre.headers) \cup HeaderMap_keys(last.args.bulk.map)
        /\ \A name \in HeaderMap_keys(last.args.bulk.map) :
              HeaderMap_get_all(Post.headers, name)
                  = HeaderMap_get_all(last.args.bulk.map, name)
        /\ \A name \in HeaderMap_keys(Pre.headers) \ HeaderMap_keys(last.args.bulk.map) :
              HeaderMap_get_all(Post.headers, name) = HeaderMap_get_all(Pre.headers, name)

\* headers({foo: [bar, baz]}) has just been called on a builder that held a
\* value for foo and a value for another key.
C7_Witness ==
    /\ pc = "building"
    /\ last.op = "headers"
    /\ last.args.bulk = BulkMap(H_foo_bar_baz)
    /\ PreOk
    /\ HeaderMap_get_all(Pre.headers, S_foo) # <<>>
    /\ HeaderMap_keys(Pre.headers) \ {S_foo} # {}
    /\ PostOk
    /\ Len(HeaderMap_get_all(Post.headers, S_foo)) = 2

\* C8: header(key, value) with a valid key and value on an Ok builder puts the
\* value after the values the (lower-cased) key held; other keys are untouched.
C8_HeaderAppends ==
    (/\ Chaining /\ last.op = "header" /\ PreOk
     /\ IsOk(HeaderName_try_from(last.args.key))
     /\ IsOk(HeaderValue_try_from(last.args.value))) =>
        LET name == to_ascii_lowercase(last.args.key.s)
        IN  /\ PostOk
            /\ HeaderMap_get_all(Post.headers, name)
                  = Append(HeaderMap_get_all(Pre.headers, name),
                           HeaderValue(last.args.value.s, last.args.value.sensitive))
            /\ HeaderMap_keys(Post.headers) = HeaderMap_keys(Pre.headers) \cup {name}
            /\ \A other \in HeaderMap_keys(Pre.headers) \ {name} :
                  HeaderMap_get_all(Post.headers, other)
                      = HeaderMap_get_all(Pre.headers, other)

\* header("Foo", "baz") has just been called on a builder that held foo: bar.
C8_Witness ==
    /\ pc = "building"
    /\ last.op = "header"
    /\ last.args.key = KeyStr(B(<<"F","o","o">>))
    /\ PreOk
    /\ HeaderMap_get_all(Pre.headers, S_foo) = <<HeaderValue(S_bar, FALSE)>>
    /\ PostOk
    /\ HeaderMap_get_all(Post.headers, S_foo)
          = <<HeaderValue(S_bar, FALSE), HeaderValue(S_baz, FALSE)>>

BASIC_Aladdin_open_sesame ==
    B(<<"B","a","s","i","c"," ","Q","W","x","h","Z","G","R","p","b","j","p","v","c","G",
        "V","u","I","H","N","l","c","2","F","t","Z","Q","=","=">>)
BASIC_Aladdin == B(<<"B","a","s","i","c"," ","Q","W","x","h","Z","G","R","p","b","g","=","=">>)

\* The Authorization values of the request after the last call, when it was an
\* auth helper called on an Ok builder that held no Authorization value.
AuthCase ==
    /\ Chaining
    /\ last.op \in {"basic_auth", "bearer_auth"}
    /\ PreOk
    /\ HeaderMap_get_all(Pre.headers, AUTHORIZATION) = <<>>

\* What basic_auth is to store: "Basic " + base64(user[:password]), sensitive.
BasicAuthStored ==
    /\ PostOk
    /\ HeaderMap_get_all(Post.headers, AUTHORIZATION) =
          <<HeaderValue(
              BASIC_PREFIX \o base64_encode(
                  IF IsSome(last.args.password)
                  THEN last.args.username \o <<58>> \o Unwrap(last.args.password)
                  ELSE last.args.username),
              TRUE)>>
    /\ (last.args.username = S_Aladdin /\ last.args.password = Some(S_open_sesame))
          => HeaderMap_get(Post.headers, AUTHORIZATION)
                = Some(HeaderValue(BASIC_Aladdin_open_sesame, TRUE))
    /\ (last.args.username = S_Aladdin /\ last.args.password = None)
          => HeaderMap_get(Post.headers, AUTHORIZATION)
                = Some(HeaderValue(BASIC_Aladdin, TRUE))

\* What bearer_auth is to store: "Bearer " + token, sensitive.
BearerAuthStored ==
    /\ PostOk
    /\ HeaderMap_get_all(Post.headers, AUTHORIZATION)
          = <<HeaderValue(BEARER_PREFIX \o last.args.token, TRUE)>>

\* C9 as stated: basic_auth and bearer_auth, for every username, password and
\* token, store exactly that one sensitive Authorization value.
C9_AuthHelpersAnyToken ==
    AuthCase => IF last.op = "basic_auth" THEN BasicAuthStored ELSE BearerAuthStored

\* C9, amended: basic_auth stores "Basic " + base64(user[:password]), sensitive;
\* bearer_auth stores "Bearer " + token, sensitive, when the token holds only
\* bytes a header value may hold, and otherwise latches a BuilderError.
C9_AuthHelpers ==
    AuthCase =>
        IF last.op = "basic_auth" THEN BasicAuthStored
        ELSE IF \A i \in 1..Len(last.args.token) : IsValueByte(last.args.token[i])
        THEN BearerAuthStored
        ELSE ~PostOk /\ Error_is_builder(builder.request.val)

\* basic_auth("Aladdin", None) has just stored "Basic QWxhZGRpbg==", sensitive.
C9_Witness ==
    /\ pc = "building"
    /\ last.op = "basic_auth"
    /\ last.args.password = None
    /\ PreOk
    /\ HeaderMap_get_all(Pre.headers, AUTHORIZATION) = <<>>
    /\ PostOk
    /\ HeaderMap_get_all(Post.headers, AUTHORIZATION) = <<HeaderValue(BASIC_Aladdin, TRUE)>>

\* C10: try_clone() returns a builder exactly when the state is Ok, and leaves
\* the builder it is called on as it was.
C10_TryCloneIffOk ==
    (Chaining /\ last.op = "try_clone") =>
        /\ IsSome(cloned) <=> PreOk
        /\ builder = last.pre

\* try_clone() has just returned a builder for a request that carries a body.
C10_Witness ==
    /\ pc = "building"
    /\ last.op = "try_clone"
    /\ PreOk
    /\ IsSome(Pre.body)
    /\ IsSome(cloned)
    /\ builder = last.pre

----------------------------------------------------------------------------
(* The clone of a builder *)

\* Two Results of a Request hold value-equal requests.
ValueEqual(a, b) ==
    /\ IsOk(a) /\ IsOk(b)
    /\ a.val.method = b.val.method
    /\ UnixUrl_as_str(a.val.url) = UnixUrl_as_str(b.val.url)
    /\ a.val.headers = b.val.headers
    /\ a.val.body = b.val.body
    /\ a.val.version = b.val.version

Forked == pc \in {"forked", "clone_built"}

\* C11: the clone builds a Request value-equal (method, URL, headers, body,
\* version) to the one the original would build when it was cloned, and no call
\* on one of the two builders, one that latches an error included, changes what
\* the other builds.
C11_CloneIndependent ==
    Forked =>
        /\ IsSome(cloned)
        /\ ("clone" \notin touched) => ValueEqual(build(Unwrap(cloned)), build(snapshot))
        /\ ("original" \notin touched) => build(builder) = build(snapshot)
        /\ (last.op # "try_clone" /\ last.on = "clone") => build(builder) = build(last.other)
        /\ (last.op # "try_clone" /\ last.on = "original")
              => build(Unwrap(cloned)) = build(last.other)
        /\ (pc = "clone_built" /\ "clone" \notin touched)
              => ValueEqual(Unwrap(built), build(snapshot))

\* A POST with a header and a body was cloned, the original then latched an
\* error, and the clone was built into the request of the moment of cloning.
C11_Witness ==
    /\ pc = "clone_built"
    /\ touched = {"original"}
    /\ IsErr(builder.request)
    /\ IsOk(snapshot.request)
    /\ IsSome(snapshot.request.val.body)
    /\ HeaderMap_get_all(snapshot.request.val.headers, S_foo) # <<>>
    /\ ValueEqual(Unwrap(built), build(snapshot))

----------------------------------------------------------------------------
(* The classification of a status *)

Classifying == reading.op \in {"error_for_status", "error_for_status_ref"}

\* C12: error_for_status() and error_for_status_ref() return a StatusError that
\* carries the status code of the response exactly when the status is 4xx or
\* 5xx, return the response as it is otherwise, and decide alike.
C12_StatusClassification ==
    Classifying =>
        LET code == Response_status(reading.pre)
            r == reading.result
        IN  /\ (code \in 400..599) =>
                  /\ IsErr(r)
                  /\ Error_is_status(r.val)
                  /\ Error_status(r.val) = Some(code)
            /\ (code \notin 400..599) =>
                  /\ r = Ok(reading.pre)
                  /\ response = Some(reading.pre)
            /\ IsOk(error_for_status(reading.pre)) <=> IsOk(error_for_status_ref(reading.pre))
            /\ IsOk(r) <=> IsOk(error_for_status(reading.pre))

\* error_for_status() has turned a 404 into a StatusError that carries 404.
C12_Witness ==
    /\ reading.op = "error_for_status"
    /\ Response_status(reading.pre) = 404
    /\ IsErr(reading.result)
    /\ Error_status(reading.result.val) = Some(404)
    /\ response = None

----------------------------------------------------------------------------
(* Reading the body of a Response *)

RECURSIVE DataOf(_)
\* The data of the data frames of a stream, end to end.
DataOf(frames) ==
    IF frames = <<>> THEN <<>>
    ELSE (IF Head(frames).kind = "data" THEN Head(frames).data ELSE <<>>)
            \o DataOf(Tail(frames))

HasError(frames) == \E i \in 1..Len(frames) : frames[i].kind = "error"

S_Hello_World == B(<<"H","e","l","l","o",","," ","W","o","r","l","d","!">>)

\* C19: bytes() on a fresh Response returns the data of every data frame of the
\* body, end to end in arrival order, as one buffer; when a frame fails it
\* returns an error and no buffer.
C19_BytesAggregates ==
    (reading.op = "bytes" /\ reading.fresh) =>
        LET frames == reading.pre.response.body
        IN  IF HasError(frames)
            THEN IsErr(reading.result) /\ reading.result.val.kind = "HyperError"
            ELSE reading.result = Ok(DataOf(frames))

\* bytes() on a fresh Response whose body came as "Hello, " and "World!" has
\* returned "Hello, World!".
C19_Witness ==
    /\ reading.op = "bytes"
    /\ reading.fresh
    /\ Len(reading.pre.response.body) = 2
    /\ reading.result = Ok(S_Hello_World)

\* C20: chunk() takes one frame off the body stream, returns the bytes of that
\* frame when it is a data frame and leaves every later frame in the stream;
\* on an exhausted stream it returns none.
C20_ChunkOneFrame ==
    reading.op = "chunk" =>
        LET frames == reading.pre.response.body
            left == Unwrap(response).response.body
        IN  IF frames = <<>>
            THEN reading.result = Ok(None) /\ left = <<>>
            ELSE /\ left = Tail(frames)
                 /\ (Head(frames).kind = "data")
                      => reading.result = Ok(Some(Head(frames).data))

\* chunk() has returned "Hello, " and "World!" is still in the stream.
C20_Witness ==
    /\ reading.op = "chunk"
    /\ reading.result = Ok(Some(S_Hello))
    /\ Unwrap(response).response.body = <<Frame_data(S_World)>>

----------------------------------------------------------------------------
(* The start of a builder *)

\* The method each way to start a builder stands for.
MethodOf ==
    [get |-> "GET", post |-> "POST", put |-> "PUT", patch |-> "PATCH",
     delete |-> "DELETE", head |-> "HEAD"]

StartedWith == IF last.via = "request" THEN last.method
               ELSE MethodOf[last.via]

\* C14: Client::request and every per-verb shortcut return an Ok builder whose
\* Request has the method, the encoded URL, no headers and no body when the
\* address encodes, and a builder latched on the address parse error when it
\* does not; build() returns that state.
C14_RequestStart ==
    (Chaining /\ last.op = "request") =>
        LET u == UnixUrl_new(socket, rel)
        IN  /\ IsOk(u) =>
                  /\ PostOk
                  /\ Post.method = StartedWith
                  /\ Post.url = u.val
                  /\ Post.headers = <<>>
                  /\ Post.body = None
            /\ IsErr(u) =>
                  /\ ~PostOk
                  /\ builder.request.val.kind = "UrlParseError"
                  /\ builder.request.val.source = u.val
            /\ (pc = "built") => built = Some(builder.request)

\* client.patch(socket, "/a") has started a builder and build() has returned
\* an Ok request with the method PATCH, no headers and no body.
C14_Witness ==
    /\ pc = "built"
    /\ last.op = "request"
    /\ last.via = "patch"
    /\ rel = <<47, 97>>
    /\ IsOk(Unwrap(built))
    /\ Unwrap(built).val.method = "PATCH"
    /\ Unwrap(built).val.headers = <<>>
    /\ Unwrap(built).val.body = None

----------------------------------------------------------------------------
(* send() and execute() *)

\* The wire requests the transport was handed for a task, in order.
DispatchesOf(t) == SelectSeq(wire_log, LAMBDA e : e.task = t)

Done(t) == tasks[t].pc = "done"
ResultOf(t) == Unwrap(tasks[t].result)
OutcomeOf(t) == Unwrap(tasks[t].outcome)

\* C13: execute() and send() never return a StatusError; when the transport
\* has a reply they return Ok(Response) with the status of the reply, whatever
\* the status, 4xx and 5xx included.
C13_NoStatusError ==
    \A t \in Tasks :
        Done(t) =>
            /\ IsErr(ResultOf(t)) =>
                  ~Error_is_status(ResultOf(t).val) /\ Error_status(ResultOf(t).val) = None
            /\ (IsSome(tasks[t].outcome) /\ IsOk(OutcomeOf(t))) =>
                  /\ IsOk(ResultOf(t))
                  /\ Response_status(ResultOf(t).val) = OutcomeOf(t).val.status

\* send() has returned Ok(Response) for a reply with the status 500.
C13_Witness ==
    \E t \in Tasks :
        /\ Done(t)
        /\ tasks[t].via = "send"
        /\ IsOk(ResultOf(t))
        /\ Response_status(ResultOf(t).val) = 500

\* What execute() returns for a request on a client, given what the transport
\* came back with, if it was asked.
ExecuteReturns(client, request, outcome) ==
    LET st == execute_start(client, request)
    IN  IF IsSome(st.returned) THEN Unwrap(st.returned)
        ELSE execute_finish(Unwrap(st.url), Unwrap(outcome))

\* C15: send() on an Ok builder hands to the transport what execute() hands to
\* it for the built Request and returns what execute() returns; on an Err
\* builder it returns the latched error and the transport is handed nothing.
C15_SendIsBuildThenExecute ==
    \A t \in Tasks :
        tasks[t].via = "send" =>
            IF IsErr(tasks[t].given)
            THEN /\ Done(t)
                 /\ ResultOf(t) = Err(tasks[t].given.val)
                 /\ DispatchesOf(t) = <<>>
            ELSE LET st == execute_start(Client_new, tasks[t].given.val)
                 IN  /\ IsSome(st.wire) => DispatchesOf(t) = <<[task |-> t, wire |-> Unwrap(st.wire)]>>
                     /\ st.wire = None => DispatchesOf(t) = <<>>
                     /\ Done(t) => ResultOf(t) = ExecuteReturns(
                                        Client_new, tasks[t].given.val, tasks[t].outcome)

\* send() on a builder latched on an error has returned that error, and the
\* transport was handed nothing.
C15_Witness ==
    \E t \in Tasks :
        /\ Done(t)
        /\ tasks[t].via = "send"
        /\ IsErr(tasks[t].given)
        /\ Error_is_builder(tasks[t].given.val)
        /\ ResultOf(t) = Err(tasks[t].given.val)
        /\ wire_log = <<>>

\* The text of a Uri, and the text of a URL up to its fragment.
UriText(uri) == UNIX_SCHEME \o uri.authority \o uri.path_and_query
UpToFragment(s) == SubSeq(s, 1, FirstIn(s, {35}) - 1)

\* C16: the wire request execute() hands to the transport has the method of
\* the Request, its URL as URI, its version, its extensions, exactly its
\* headers with every value of a repeated name in order, and for body the bytes
\* of the body of the Request, or no bytes when the Request has none.
C16_WireAssembly ==
    \A i \in 1..Len(wire_log) :
        LET wire == wire_log[i].wire
            req == tasks[wire_log[i].task].given.val
        IN  /\ wire.method = req.method
            /\ UriText(wire.uri) = UpToFragment(UnixUrl_as_str(req.url))
            /\ wire.version = req.version
            /\ wire.extensions = req.extensions
            /\ HeaderMap_keys(wire.headers) = HeaderMap_keys(req.headers)
            /\ \A name \in HeaderMap_keys(req.headers) :
                    HeaderMap_get_all(wire.headers, name) = HeaderMap_get_all(req.headers, name)
            /\ wire.body.data = IF IsSome(req.body) THEN Unwrap(req.body).inner ELSE <<>>

\* The transport was handed a request with the two values of the header foo,
\* in order, and a body of no bytes for a Request without a body.
C16_Witness ==
    /\ Len(wire_log) = 1
    /\ HeaderMap_get_all(wire_log[1].wire.headers, S_foo)
          = <<HeaderValue(S_bar, FALSE), HeaderValue(S_baz, FALSE)>>
    /\ tasks[wire_log[1].task].given.val.body = None
    /\ wire_log[1].wire.body.data = <<>>

\* C18: a call of execute() or send() hands a request to the transport at most
\* once; when the transport fails the call returns that error and the
\* transport is not asked again.
C18_NoRetry ==
    \A t \in Tasks :
        /\ Len(DispatchesOf(t)) <= 1
        /\ (IsSome(tasks[t].outcome) /\ IsErr(OutcomeOf(t))) => Len(DispatchesOf(t)) = 1
        /\ (Done(t) /\ IsSome(tasks[t].outcome) /\ IsErr(OutcomeOf(t))) =>
              ResultOf(t) = Err(Error_ClientError(OutcomeOf(t).val))

\* The transport failed, the call has returned the error of the transport, and
\* the transport was asked once.
C18_Witness ==
    \E t \in Tasks :
        /\ Done(t)
        /\ IsErr(ResultOf(t))
        /\ ResultOf(t).val.kind = "ClientError"
        /\ Error_is_connect(ResultOf(t).val)
        /\ Len(DispatchesOf(t)) = 1

\* C17: the Response a call of execute() returns has the URL of the Request of
\* that call and holds the reply to the wire request of that call, however the
\* calls that share the transport and its replies interleave.
C17_ResponsePairing ==
    \A t \in Tasks :
        (Done(t) /\ IsOk(ResultOf(t))) =>
            LET req == tasks[t].given.val
                resp == ResultOf(t).val
            IN  /\ Response_url(resp) = req.url
                /\ UriText(resp.response.served) = UpToFragment(UnixUrl_as_str(req.url))
                /\ resp.response = OutcomeOf(t).val

\* Two calls were under way at once, for different URLs; the later one has
\* its Response, with its own URL, while the earlier one still waits.
C17_Witness ==
    /\ tasks[1].pc = "awaiting"
    /\ tasks[1].outcome = None
    /\ Done(2)
    /\ IsOk(ResultOf(2))
    /\ tasks[1].given.val.url # tasks[2].given.val.url
    /\ Response_url(ResultOf(2).val) = tasks[2].given.val.url

----------------------------------------------------------------------------
(* form() and json() *)

F_foo_bar_baz_12_text == B(<<"f","o","o","=","b","a","r","&","b","a","z","=","1","2">>)
J_lang_rust_text ==
    B(<<"{","\"","l","a","n","g","\"",":","\"","r","\\","\"","s","\"",",",
        "\"","7","\"",":","[","1",",","\"","a","\"","]","}">>)

\* What the last form()/json() call serializes its value to, and the
\* Content-Type that goes with it.
Serialized ==
    IF last.op = "form" THEN urlencoded_to_string(last.args.value)
    ELSE json_to_vec(last.args.value)
ContentTypeOf == IF last.op = "form" THEN FORM_CONTENT_TYPE ELSE JSON_CONTENT_TYPE

\* C21: after form(value) or json(value) on an Ok builder whose value
\* serializes, the request holds exactly one Content-Type value, the one of the
\* call, whatever Content-Type values it held; its body is the serialized bytes
\* whatever body it held; every other header, the URL, the method, the version
\* and the extensions are what they were.
C21_FormJsonReplace ==
    (Chaining /\ last.op \in {"form", "json"} /\ PreOk /\ IsOk(Serialized)) =>
        /\ PostOk
        /\ HeaderMap_get_all(Post.headers, CONTENT_TYPE)
              = <<HeaderValue(ContentTypeOf, FALSE)>>
        /\ Post.body = Some(Body_from(Serialized.val))
        /\ HeaderMap_keys(Post.headers) = HeaderMap_keys(Pre.headers) \cup {CONTENT_TYPE}
        /\ \A other \in HeaderMap_keys(Pre.headers) \ {CONTENT_TYPE} :
              HeaderMap_get_all(Post.headers, other) = HeaderMap_get_all(Pre.headers, other)
        /\ Post.url = Pre.url
        /\ Post.method = Pre.method
        /\ Post.version = Pre.version
        /\ Post.extensions = Pre.extensions
        /\ (last.args.value = J_lang_rust => Serialized.val = J_lang_rust_text)

\* form({foo: bar, baz: 12}) has just been called on a builder that held a
\* Content-Type, another header and a body: one Content-Type is left, the
\* body is foo=bar&baz=12.
C21_Witness ==
    /\ pc = "building"
    /\ last.op = "form"
    /\ PreOk
    /\ HeaderMap_get_all(Pre.headers, CONTENT_TYPE) # <<>>
    /\ HeaderMap_keys(Pre.headers) \ {CONTENT_TYPE} # {}
    /\ IsSome(Pre.body)
    /\ PostOk
    /\ HeaderMap_get_all(Post.headers, CONTENT_TYPE)
          = <<HeaderValue(FORM_CONTENT_TYPE, FALSE)>>
    /\ Post.body = Some(Body_from(F_foo_bar_baz_12_text))

----------------------------------------------------------------------------
(* Failing calls of the chain *)

\* The last call is one of header, headers, query, form, json and its input
\* does not validate or serialize.
Failing ==
    IF last.op = "header"
    THEN IsErr(HeaderName_try_from(last.args.key))
            \/ IsErr(HeaderValue_try_from(last.args.value))
    ELSE IF last.op = "headers" THEN IsErr(HeaderMap_try_from(last.args.bulk))
    ELSE IF last.op \in {"query", "form"} THEN IsErr(urlencoded_to_string(last.args.value))
    ELSE IF last.op = "json" THEN IsErr(json_to_vec(last.args.value))
    ELSE FALSE

\* The BuilderError variant each of the calls latches.
VariantOf ==
    IF last.op \in {"header", "headers"} THEN "Http"
    ELSE IF last.op = "json" THEN "SerializeJson"
    ELSE "SerializeUrl"

\* C22: a header/headers call whose input does not validate, or a query/form/
\* json call whose value does not serialize, made on an Ok builder, returns a
\* builder on the same client whose state is Err; the error is a BuilderError
\* (is_builder() holds, status() is none), build() returns that error, and
\* send() returns it without handing anything to the transport.
C22_FailureLatches ==
    (Chaining /\ PreOk /\ Failing) =>
        /\ builder.client = last.pre.client
        /\ ~PostOk
        /\ Error_is_builder(builder.request.val)
        /\ builder.request.val.variant = VariantOf
        /\ Error_status(builder.request.val) = None
        /\ ~Error_is_status(builder.request.val)
        /\ (pc = "built" => built = Some(Err(builder.request.val)))
        /\ LET sent == send_start(builder)
           IN  /\ sent.returned = Some(Err(builder.request.val))
               /\ sent.wire = None

\* headers() was called with a collection that is no HeaderMap on an Ok
\* builder, and build() has returned the BuilderError.
C22_Witness ==
    /\ pc = "built"
    /\ last.op = "headers"
    /\ last.args.bulk = BulkInvalid("InvalidHeaderName")
    /\ PreOk
    /\ IsSome(built)
    /\ IsErr(Unwrap(built))
    /\ Error_is_builder(Unwrap(built).val)
    /\ Error_status(Unwrap(built).val) = None

----------------------------------------------------------------------------
(* body() and version() *)

\* C26: body(value) on an Ok builder makes the body `value`, whatever it was,
\* and leaves the method, the URL, the headers (a Content-Type of an earlier
\* form/json call included), the version and the extensions as they were;
\* version(v) makes the version v and leaves everything else as it was.
C26_BodyVersionFrame ==
    /\ (Chaining /\ last.op = "body" /\ PreOk) =>
            /\ PostOk
            /\ Post.body = Some(Body_from(last.args.body))
            /\ Post = [Pre EXCEPT !.body = Some(Body_from(last.args.body))]
            /\ Post.headers = Pre.headers
            /\ Post.method = Pre.method /\ Post.url = Pre.url
            /\ Post.version = Pre.version
    /\ (Chaining /\ last.op = "version" /\ PreOk) =>
            /\ PostOk
            /\ Post.version = last.args.version
            /\ Post = [Pre EXCEPT !.version = last.args.version]
            /\ Post.headers = Pre.headers /\ Post.body = Pre.body
            /\ Post.method = Pre.method /\ Post.url = Pre.url

\* body("") has just been called on a builder that a form() call had given a
\* body and a Content-Type: the body is the empty one, the Content-Type stays.
C26_Witness ==
    /\ pc = "building"
    /\ last.op = "body"
    /\ last.args.body = <<>>
    /\ PreOk
    /\ Pre.body = Some(Body_from(F_foo_bar_baz_12_text))
    /\ PostOk
    /\ Post.body = Some(Body_from(<<>>))
    /\ HeaderMap_get_all(Post.headers, CONTENT_TYPE)
          = <<HeaderValue(FORM_CONTENT_TYPE, FALSE)>>

----------------------------------------------------------------------------
(* Authorization values over a chain *)

S_tok == B(<<"t","o","k">>)
BEARER_hold_my_bear == B(<<"B","e","a","r","e","r"," ","H","o","l","d"," ","m","y"," ","b","e","a","r">>)

\* The last call adds an Authorization value: an auth helper, or header() with
\* a key that is Authorization in any case.
AddsAuthorization ==
    \/ last.op \in {"basic_auth", "bearer_auth"}
    \/ /\ last.op = "header"
       /\ HeaderName_try_from(last.args.key) = Ok(AUTHORIZATION)

\* The value the last call is to add.
AuthorizationAdded ==
    IF last.op = "header" THEN HeaderValue(last.args.value.s, last.args.value.sensitive)
    ELSE IF last.op = "bearer_auth" THEN HeaderValue(BEARER_PREFIX \o last.args.token, TRUE)
    ELSE HeaderValue(
            BASIC_PREFIX \o base64_encode(
                IF IsSome(last.args.password)
                THEN last.args.username \o <<58>> \o Unwrap(last.args.password)
                ELSE last.args.username),
            TRUE)

\* C28: a builder starts with no Authorization value; each successful
\* basic_auth, bearer_auth or header(Authorization) call puts its value after
\* the Authorization values the request holds, so that n such calls leave n
\* values in call order; the single-value lookup keeps returning the first
\* one added; the other calls of the chain leave the values alone.
C28_AuthAppends ==
    /\ (Chaining /\ last.op = "request" /\ PostOk) =>
            HeaderMap_get_all(Post.headers, AUTHORIZATION) = <<>>
    /\ (Chaining /\ last.op \in Mutators /\ PreOk /\ PostOk) =>
            LET before == HeaderMap_get_all(Pre.headers, AUTHORIZATION)
                after == HeaderMap_get_all(Post.headers, AUTHORIZATION)
            IN  IF AddsAuthorization
                THEN /\ after = Append(before, AuthorizationAdded)
                     /\ Len(after) = Len(before) + 1
                     /\ HeaderMap_get(Post.headers, AUTHORIZATION) = Some(after[1])
                     /\ before # <<>> =>
                            HeaderMap_get(Post.headers, AUTHORIZATION)
                                = HeaderMap_get(Pre.headers, AUTHORIZATION)
                ELSE after = before

\* header("Authorization", "tok"), basic_auth("Aladdin", None) and
\* bearer_auth("Hold my bear") were called in this order: the request holds the
\* three values in this order and the lookup returns "tok".
C28_Witness ==
    /\ pc = "building"
    /\ last.op = "bearer_auth"
    /\ PreOk
    /\ PostOk
    /\ HeaderMap_get_all(Post.headers, AUTHORIZATION)
          = <<HeaderValue(S_tok, FALSE), HeaderValue(BASIC_Aladdin, TRUE),
              HeaderValue(BEARER_hold_my_bear, TRUE)>>
    /\ HeaderMap_get(Post.headers, AUTHORIZATION) = Some(HeaderValue(S_tok, FALSE))

----------------------------------------------------------------------------
(* Reading a body in pieces and at once *)

\* C27: for every body stream a reply can carry (data frames, then the end
\* of the stream, trailers, or an error), the chunks that chunk() returned up
\* to its first none, end to end in the order they came, are the buffer
\* bytes() returns for the same stream; when the stream fails, both fail.
C27_ChunksAgreeWithBytes ==
    (chunks.end # "open" /\ IsSome(twin.read)) =>
        IF chunks.end = "none"
        THEN Unwrap(twin.read) = Ok(Concat(chunks.got))
        ELSE IsErr(Unwrap(twin.read))

\* The stream "Hello, ", "World!", trailers was read by three chunk() calls
\* up to the none, and by bytes(): both have "Hello, World!".
C27_Witness ==
    /\ chunks.end = "none"
    /\ chunks.got = <<S_Hello, S_World>>
    /\ reading.op = "chunk"
    /\ reading.pre.response.body = <<Frame_trailers>>
    /\ twin.read = Some(Ok(S_Hello_World))

----------------------------------------------------------------------------
(* A Request that cannot be assembled *)

\* The Request a task was given has a URL that is no valid URI.
Unassemblable(t) ==
    /\ tasks[t].pc # "free"
    /\ IsOk(tasks[t].given)
    /\ IsErr(Uri_try_from(tasks[t].given.val.url))

\* C24: when the URL of the Request does not convert to a URI, execute() (and
\* send() through it) returns at once, with an error of the kind HttpError that
\* is no transport error (is_connect() is false), and nothing is handed to the
\* transport for the call, then or later.
C24_AssemblyBeforeDispatch ==
    \A t \in Tasks :
        Unassemblable(t) =>
            /\ Done(t)
            /\ IsErr(ResultOf(t))
            /\ ResultOf(t).val.kind = "HttpError"
            /\ ~Error_is_connect(ResultOf(t).val)
            /\ ~Error_is_builder(ResultOf(t).val)
            /\ DispatchesOf(t) = <<>>
            /\ tasks[t].outcome = None

\* get("", "/") was built and given to execute(): the URL unix:/// has no
\* authority, the call has returned an HttpError and the transport was handed
\* nothing.
C24_Witness ==
    \E t \in Tasks :
        /\ tasks[t].via = "execute"
        /\ IsOk(tasks[t].given)
        /\ Authority(tasks[t].given.val.url) = <<>>
        /\ Done(t)
        /\ IsErr(ResultOf(t))
        /\ ResultOf(t).val.kind = "HttpError"
        /\ wire_log = <<>>

----------------------------------------------------------------------------
(* The socket a request is sent to *)

\* Client::new() builds the transport over a UnixConnector and gives it no
\* path; the connector opens, for each wire request, the path that the
\* authority of its Uri is the hex text of.
UnixConnector_call(uri) == hex_decode(uri.authority)

S_other_socket == B(<<"/","b">>)
ConnectStarts == { <<"get", "", SOCKET, R_root>>, <<"get", "", S_other_socket, R_root>> }

\* Calls of one client on requests for two sockets.
NextConnect ==
    \/ \E r \in ConnectStarts : ClientRequest(r[1], r[2], r[3], r[4])
    \/ Send
    \/ \E t \in Tasks, status \in SendStatuses : TransportReply(t, status)
    \/ \E t \in Tasks : TransportFail(t)
    \/ \E t \in Tasks : Resume(t)

SpecConnect == Init /\ [][NextConnect]_vars

\* The path the transport opens for the i-th request it was handed.
Connected(i) == UnixConnector_call(wire_log[i].wire.uri)

\* C25: the path a request is connected to is the one the transport of the
\* client was given when the client was made, not one taken from the URL:
\* all the requests of a client connect to the same path, whatever the
\* authority of their URLs.
C25_SocketFromConstruction ==
    \A i, j \in 1..Len(wire_log) :
        tasks[wire_log[i].task].given.val.url # tasks[wire_log[j].task].given.val.url
            => Connected(i) = Connected(j)

----------------------------------------------------------------------------
(* Response::text: the charset of a reply and the decoding of its body *)

\* HeaderValue::to_str: the text of a value of visible ASCII (and tab) only.
HeaderValue_to_str(v) ==
    IF \A i \in 1..Len(v.bytes) : (v.bytes[i] >= 32 /\ v.bytes[i] < 127) \/ v.bytes[i] = 9
    THEN Ok(v.bytes)
    ELSE Err("ToStrError")

\* s without the spaces it starts with.
TrimStart(s) ==
    IF \A i \in 1..Len(s) : s[i] = 32 THEN <<>>
    ELSE Drop(s, (CHOOSE i \in 1..Len(s) : s[i] # 32 /\ \A j \in 1..(i - 1) : s[j] = 32) - 1)

IsToken(s) == s # <<>> /\ \A i \in 1..Len(s) : IsTokenByte(s[i])

\* One parameter of a media type, "name=value" with a token on either side
\* of the '=' at eq: the name is lower-cased, and so is the value of charset.
Mime_param_at(s, eq) ==
    IF eq <= Len(s) /\ IsToken(SubSeq(s, 1, eq - 1)) /\ IsToken(Drop(s, eq))
    THEN Ok([name |-> to_ascii_lowercase(SubSeq(s, 1, eq - 1)),
             value |-> IF to_ascii_lowercase(SubSeq(s, 1, eq - 1)) = B(<<"c","h","a","r","s","e","t">>)
                       THEN to_ascii_lowercase(Drop(s, eq)) ELSE Drop(s, eq)])
    ELSE Err("InvalidToken")

Mime_param(s) == Mime_param_at(s, FirstIn(s, {61}))

\* The parameters of a media type, from the text after its first ';'.
Mime_params(pieces_of_rest) ==
    [i \in 1..Len(pieces_of_rest) |-> Mime_param(TrimStart(pieces_of_rest[i]))]

Mime_checked(essence, slash, params) ==
    IF slash > Len(essence) THEN Err("MissingSlash")
    ELSE IF ~IsToken(SubSeq(essence, 1, slash - 1)) \/ ~IsToken(Drop(essence, slash))
    THEN Err("InvalidToken")
    ELSE IF \E i \in 1..Len(params) : IsErr(params[i]) THEN Err("InvalidToken")
    ELSE Ok([essence |-> to_ascii_lowercase(essence),
             params |-> [i \in 1..Len(params) |-> params[i].val]])

Mime_split(s, semi) ==
    Mime_checked(SubSeq(s, 1, semi - 1),
                 FirstIn(SubSeq(s, 1, semi - 1), {47}),
                 Mime_params(IF semi > Len(s) THEN <<>> ELSE SplitOn(Drop(s, semi), 59)))

\* <Mime as FromStr>::from_str on a text that is "type/subtype" followed by
\* any number of "; name=value" with token values: a text without a slash or
\* with a byte that is no token byte in a name is no media type.
Mime_from_str(s) == Mime_split(s, FirstIn(s, {59}))

\* Mime::get_param(name): the value of the first parameter of that name.
Mime_get_param(m, name) ==
    IF \E i \in 1..Len(m.params) : m.params[i].name = name
    THEN Some(m.params[CHOOSE i \in 1..Len(m.params) :
                        /\ m.params[i].name = name
                        /\ \A j \in 1..(i - 1) : m.params[j].name # name].value)
    ELSE None

UTF_8 == "UTF-8"
WINDOWS_1252 == "windows-1252"
UTF_16LE == "UTF-16LE"
UTF_16BE == "UTF-16BE"

\* The labels of these four encodings that the callers of this model use.
LABELS ==
    << <<B(<<"u","t","f","-","8">>), UTF_8>>,
       <<B(<<"u","t","f","8">>), UTF_8>>,
       <<B(<<"l","a","t","i","n","1">>), WINDOWS_1252>>,
       <<B(<<"i","s","o","-","8","8","5","9","-","1">>), WINDOWS_1252>>,
       <<B(<<"a","s","c","i","i">>), WINDOWS_1252>>,
       <<B(<<"w","i","n","d","o","w","s","-","1","2","5","2">>), WINDOWS_1252>>,
       <<B(<<"u","t","f","-","1","6">>), UTF_16LE>>,
       <<B(<<"u","t","f","-","1","6","l","e">>), UTF_16LE>>,
       <<B(<<"u","t","f","-","1","6","b","e">>), UTF_16BE>> >>

\* Encoding::for_label: the label, in any case, names the encoding or none.
Encoding_for_label(label) ==
    LET lower == to_ascii_lowercase(label)
    IN  IF \E i \in 1..Len(LABELS) : LABELS[i][1] = lower
        THEN Some(LABELS[CHOOSE i \in 1..Len(LABELS) : LABELS[i][1] = lower][2])
        ELSE None

\* Encoding::for_bom: the encoding a byte order mark at the start of the
\* bytes stands for, and the length of the mark.
Encoding_for_bom(bs) ==
    IF Len(bs) >= 3 /\ SubSeq(bs, 1, 3) = <<239, 187, 191>> THEN Some(<<UTF_8, 3>>)
    ELSE IF Len(bs) >= 2 /\ SubSeq(bs, 1, 2) = <<255, 254>> THEN Some(<<UTF_16LE, 2>>)
    ELSE IF Len(bs) >= 2 /\ SubSeq(bs, 1, 2) = <<254, 255>> THEN Some(<<UTF_16BE, 2>>)
    ELSE None

\* The UTF-8 bytes of a scalar value.
encode_utf8(cp) ==
    IF cp < 128 THEN <<cp>>
    ELSE IF cp < 2048 THEN <<192 + (cp \div 64), 128 + (cp % 64)>>
    ELSE IF cp < 65536
    THEN <<224 + (cp \div 4096), 128 + ((cp \div 64) % 64), 128 + (cp % 64)>>
    ELSE <<240 + (cp \div 262144), 128 + ((cp \div 4096) % 64),
           128 + ((cp \div 64) % 64), 128 + (cp % 64)>>

\* The scalar values of the bytes 0x80 .. 0x9F in windows-1252.
WINDOWS_1252_HIGH ==
    << 8364, 129, 8218, 402, 8222, 8230, 8224, 8225, 710, 8240, 352, 8249, 338, 141, 381, 143,
       144, 8216, 8217, 8220, 8221, 8226, 8211, 8212, 732, 8482, 353, 8250, 339, 157, 382, 376 >>

\* The windows-1252 decoder: one scalar value per byte.
windows_1252_decode(bs) ==
    Concat([i \in 1..Len(bs) |->
        encode_utf8(IF bs[i] >= 128 /\ bs[i] < 160 THEN WINDOWS_1252_HIGH[bs[i] - 127]
                    ELSE bs[i])])

RECURSIVE utf16_units_decode(_)
\* The text of a sequence of UTF-16 code units: a surrogate pair is one scalar
\* value, a surrogate on its own is U+FFFD.
utf16_units_decode(units) ==
    IF units = <<>> THEN <<>>
    ELSE LET u == units[1]
         IN  IF u >= 55296 /\ u < 56320
             THEN IF Len(units) >= 2 /\ units[2] >= 56320 /\ units[2] < 57344
                  THEN encode_utf8(65536 + (u - 55296) * 1024 + (units[2] - 56320))
                          \o utf16_units_decode(Drop(units, 2))
                  ELSE REPLACEMENT \o utf16_units_decode(Tail(units))
             ELSE IF u >= 56320 /\ u < 57344
             THEN REPLACEMENT \o utf16_units_decode(Tail(units))
             ELSE encode_utf8(u) \o utf16_units_decode(Tail(units))

\* The UTF-16 decoders: two bytes per code unit, a byte left over is U+FFFD.
utf16_decode(bs, big_endian) ==
    utf16_units_decode(
        [i \in 1..(Len(bs) \div 2) |->
            IF big_endian THEN 256 * bs[2 * i - 1] + bs[2 * i]
            ELSE 256 * bs[2 * i] + bs[2 * i - 1]])
      \o (IF Len(bs) % 2 = 1 THEN REPLACEMENT ELSE <<>>)

\* Encoding::decode_without_bom_handling: malformed sequences become U+FFFD.
decode_without_bom_handling(enc, bs) ==
    IF enc = UTF_8 THEN to_string_lossy(bs)
    ELSE IF enc = WINDOWS_1252 THEN windows_1252_decode(bs)
    ELSE utf16_decode(bs, enc = UTF_16BE)

\* Encoding::decode on bytes that start with no byte order mark.
Encoding_decode_without_sniffing(enc, bs) ==
    [text |-> decode_without_bom_handling(enc, bs), used |-> enc]

Encoding_decode_sniffed(enc, bs, bom) ==
    IF IsSome(bom)
    THEN [text |-> decode_without_bom_handling(Unwrap(bom)[1], Drop(bs, Unwrap(bom)[2])),
          used |-> Unwrap(bom)[1]]
    ELSE Encoding_decode_without_sniffing(enc, bs)

\* Encoding::decode: a byte order mark at the start of the bytes decides the
\* encoding and is left out of the text; without one the encoding is the one
\* decode() is called on.
Encoding_decode(enc, bs) == Encoding_decode_sniffed(enc, bs, Encoding_for_bom(bs))

\* Result::ok, Option::unwrap_or
Result_ok(res) == IF IsOk(res) THEN Some(res.val) ELSE None
Option_unwrap_or(o, d) == IF IsSome(o) THEN Unwrap(o) ELSE d

\* .and_then(|value| value.to_str().ok())
to_str_ok(o) == IF IsSome(o) THEN Result_ok(HeaderValue_to_str(Unwrap(o))) ELSE None
\* .and_then(|value| value.parse::<Mime>().ok())
parse_mime_ok(o) == IF IsSome(o) THEN Result_ok(Mime_from_str(Unwrap(o))) ELSE None
\* .and_then(|mime| mime.get_param("charset").map(|charset| charset.as_str()))
charset_of(o) ==
    IF IsSome(o) THEN Mime_get_param(Unwrap(o), B(<<"c","h","a","r","s","e","t">>)) ELSE None

\* The first three statements of text_with_charset: the media type of the
\* first Content-Type value, when it is text and parses; the name of the
\* encoding; the encoding, UTF-8 when the name is no label.
content_type_of(r) ==
    parse_mime_ok(to_str_ok(HeaderMap_get(r.response.headers, CONTENT_TYPE)))

encoding_name_of(r, default_encoding) ==
    Option_unwrap_or(charset_of(content_type_of(r)), default_encoding)

encoding_of(r, default_encoding) ==
    Option_unwrap_or(Encoding_for_label(encoding_name_of(r, default_encoding)), UTF_8)

\* let full = self.bytes().await?; encoding.decode(&full)
decode_ok(encoding, full) ==
    IF IsErr(full) THEN full ELSE Ok(Encoding_decode(encoding, full.val))

\* The last three statements of text_with_charset: the whole body, decoded;
\* what decode() returns names the encoding it used as well.
decode_full(r, default_encoding) == decode_ok(encoding_of(r, default_encoding), bytes(r))

\* let (text, _, _) = ..; Ok(text.into_owned())
text_of(decoded) == IF IsErr(decoded) THEN decoded ELSE Ok(decoded.val.text)

\* A text_with_charset that looks at Content-Type only when the default is no
\* label of an encoding.
text_with_charset_default_first(r, default_encoding) ==
    text_of(decode_ok(Option_unwrap_or(Encoding_for_label(default_encoding),
                                       encoding_of(r, default_encoding)),
                      bytes(r)))

\* Response::text_with_charset(default_encoding)
text_with_charset(r, default_encoding) == text_of(decode_full(r, default_encoding))

\* Response::text (feature "charset")
text(r) == text_with_charset(r, B(<<"u","t","f","-","8">>))

\* The replies whose text is read: the Content-Type of the reply, if any, and
\* the frames of its body; and the default encodings the caller names.
CT_plain == B(<<"t","e","x","t","/","p","l","a","i","n">>)
CT_plain_utf8 ==
    B(<<"t","e","x","t","/","p","l","a","i","n",";"," ","c","h","a","r","s","e","t","=",
        "u","t","f","-","8">>)
CT_html_latin1 ==
    B(<<"t","e","x","t","/","h","t","m","l",";"," ","c","h","a","r","s","e","t","=",
        "I","S","O","-","8","8","5","9","-","1">>)
CT_plain_bogus ==
    B(<<"t","e","x","t","/","p","l","a","i","n",";"," ","c","h","a","r","s","e","t","=",
        "b","o","g","u","s">>)
CT_no_slash == B(<<"g","a","r","b","a","g","e">>)
CT_not_text == CT_html_latin1 \o B(<<";"," ","x","=">>) \o <<233>>
ContentTypeInputs ==
    { None, Some(CT_plain), Some(CT_plain_utf8), Some(CT_html_latin1), Some(CT_plain_bogus),
      Some(CT_no_slash), Some(CT_not_text) }

L_utf8 == B(<<"u","t","f","-","8">>)
L_latin1 == B(<<"l","a","t","i","n","1">>)
L_utf16le == B(<<"u","t","f","-","1","6","l","e">>)
L_bogus == B(<<"b","o","g","u","s">>)
DefaultEncodingInputs == { L_utf8, L_latin1, L_utf16le, L_bogus }

TextBodyInputs ==
    { <<>>,
      <<Frame_data(<<65, 233>>)>>,
      <<Frame_data(<<195>>), Frame_data(<<169>>)>>,
      <<Frame_data(<<239, 187, 191, 65>>)>>,
      <<Frame_data(<<255, 254, 65, 0>>)>>,
      <<Frame_data(<<65, 0>>)>>,
      <<Frame_data(<<65>>), Frame_error("IncompleteMessage")>> }

\* client.get(SOCKET, "/").send() has returned Ok(response) for a reply with
\* this Content-Type and this body.
ReceiveText(content_type, frames) ==
    /\ pc = "idle"
    /\ pc' = "received"
    /\ LET u == UnixUrl_new(SOCKET, R_root).val
           reply == [http_Response(200, None, frames, Uri_try_from(u).val) EXCEPT
                        !.headers = IF IsSome(content_type)
                                    THEN HeaderMap_append(HeaderMap_new, CONTENT_TYPE,
                                            HeaderValue(Unwrap(content_type), FALSE))
                                    ELSE HeaderMap_new]
       IN  response' = Some(execute_finish(u, Ok(reply)).val)
    /\ reading' = [op |-> "receive", fresh |-> TRUE]
    /\ UNCHANGED <<socket, rel, urlVars, builderVars, cloneVars, sendVars, chunks, twin>>

\* A call that reads the text: the response is consumed.  `used` is the
\* encoding decode() reports to have used, which the program drops.
ReadText(op, default_encoding, result) ==
    /\ pc = "received"
    /\ pc' = "consumed"
    /\ response' = None
    /\ reading' = [op |-> op, pre |-> Unwrap(response), default |-> default_encoding,
                   result |-> result,
                   used |-> Result_ok(decode_full(Unwrap(response), default_encoding)),
                   fresh |-> reading.fresh]
    /\ UNCHANGED <<socket, rel, urlVars, builderVars, cloneVars, sendVars, chunks, twin>>

\* response.text_with_charset(default_encoding)
TextWithCharset(default_encoding) ==
    ReadText("text_with_charset", default_encoding,
             text_with_charset(Unwrap(response), default_encoding))

\* response.text()
Text == ReadText("text", L_utf8, text(Unwrap(response)))

NextText ==
    \/ \E content_type \in ContentTypeInputs, frames \in TextBodyInputs :
            ReceiveText(content_type, frames)
    \/ \E default_encoding \in DefaultEncodingInputs : TextWithCharset(default_encoding)
    \/ Text

SpecText == Init /\ [][NextText]_vars

\* The charset each Content-Type of ContentTypeInputs carries, and the
\* encoding each label of these runs names.
CarriedCharset(content_type) ==
    IF content_type = Some(HeaderValue(CT_plain_utf8, FALSE)) THEN Some(L_utf8)
    ELSE IF content_type = Some(HeaderValue(CT_html_latin1, FALSE))
    THEN Some(B(<<"i","s","o","-","8","8","5","9","-","1">>))
    ELSE IF content_type = Some(HeaderValue(CT_plain_bogus, FALSE)) THEN Some(L_bogus)
    ELSE None

NamedEncoding(label) ==
    IF label = L_utf8 THEN Some(UTF_8)
    ELSE IF label \in {L_latin1, B(<<"i","s","o","-","8","8","5","9","-","1">>)}
    THEN Some(WINDOWS_1252)
    ELSE IF label = L_utf16le THEN Some(UTF_16LE)
    ELSE None

ReadingText == reading.op \in {"text", "text_with_charset"}

\* The name the last text call is to go by: the charset of the Content-Type
\* of the reply when it carries one, the default of the call otherwise.
NameToGoBy ==
    LET carried == CarriedCharset(HeaderMap_get(reading.pre.response.headers, CONTENT_TYPE))
    IN  IF IsSome(carried) THEN Unwrap(carried) ELSE reading.default

\* C23 as stated: the body is decoded with the encoding that the charset of
\* Content-Type names whenever Content-Type carries one, and with the default
\* encoding of the caller when Content-Type is absent, does not parse or
\* carries no charset.
C23_CharsetPrecedenceAsStated ==
    (ReadingText /\ IsOk(reading.result) /\ IsSome(NamedEncoding(NameToGoBy))) =>
        Unwrap(reading.used).used = Unwrap(NamedEncoding(NameToGoBy))

\* C23, amended: the encoding is picked by name, the charset of Content-Type
\* when it carries one and the default of the caller when Content-Type is
\* absent, is no visible ASCII, does not parse or carries no charset; a name
\* that is no label of an encoding picks UTF-8.  A byte order mark at the
\* start of the body overrides the pick and is left out of the text;
\* malformed sequences become U+FFFD.  When the body fails, so does the call.
\* text() is text_with_charset("utf-8").
C23_CharsetPrecedence ==
    ReadingText =>
        LET frames == reading.pre.response.body
            whole == DataOf(frames)
            named == NamedEncoding(NameToGoBy)
            picked == IF IsSome(named) THEN Unwrap(named) ELSE UTF_8
            bom == Encoding_for_bom(whole)
        IN  /\ IF HasError(frames)
               THEN IsErr(reading.result) /\ reading.result.val.kind = "HyperError"
               ELSE IF IsSome(bom)
               THEN /\ Unwrap(reading.used).used = Unwrap(bom)[1]
                    /\ reading.result
                          = Ok(decode_without_bom_handling(Unwrap(bom)[1],
                                                           Drop(whole, Unwrap(bom)[2])))
               ELSE /\ Unwrap(reading.used).used = picked
                    /\ reading.result = Ok(decode_without_bom_handling(picked, whole))
            /\ reading.op = "text" =>
                  /\ reading.default = L_utf8
                  /\ reading.result = text_with_charset(reading.pre, L_utf8)

\* text_with_charset("utf-8") on a reply with Content-Type "text/html;
\* charset=ISO-8859-1" and the body 41 E9 has returned "Aé": the charset of
\* the reply was used, not the default.
C23_Witness ==
    /\ reading.op = "text_with_charset"
    /\ reading.default = L_utf8
    /\ HeaderMap_get(reading.pre.response.headers, CONTENT_TYPE)
          = Some(HeaderValue(CT_html_latin1, FALSE))
    /\ reading.pre.response.body = <<Frame_data(<<65, 233>>)>>
    /\ reading.result = Ok(<<65, 195, 169>>)
    /\ Unwrap(reading.used).used = WINDOWS_1252

====
